---- MODULE Spec2Model ----
(***************************************************************************)
(* Model of the ewouldblock engine (engines/ewouldblock_engine):           *)
(* the injection gate, the connection registry, the fault injectors, the  *)
(* suspension map, the pending-IO queue and the notification thread.       *)
(***************************************************************************)
EXTENDS Integers, Sequences, FiniteSets, TLC

(***************************************************************************)
(* Bounds of the model.                                                    *)
(***************************************************************************)
\* total number of engine calls / control requests / disconnects issued
MaxOps == 4
\* the same, in the runs that follow an ErrSequence through its 32 positions
MaxSequenceOps == 35
\* the same, in the runs that drive a synthetic DCP stream
MaxStreamOps == 6
\* the same, in the runs of the file-monitor test
MaxMonitorOps == 3
\* the same, in the runs of a PeriodicTask
MaxTaskOps == 4
\* the latest time the clock reaches
MaxTime == 4

(***************************************************************************)
(* Host side: cookies, connection ids, suspension tokens.                  *)
(***************************************************************************)
Cookies == {"c1", "c2", "c3"}
NoCookie == "nullptr"
ConnIds == {1, 2}
Tokens == {7, 9}
NoToken == 0

\* real_api->cookie->get_connection_id(cookie): c1 and c2 are two commands
\* of connection 1, c3 belongs to connection 2.
get_connection_id(cookie) == IF cookie = "c3" THEN 2 ELSE 1

(***************************************************************************)
(* ENGINE_ERROR_CODE values used.                                          *)
(***************************************************************************)
ENGINE_SUCCESS == "ENGINE_SUCCESS"
ENGINE_KEY_ENOENT == "ENGINE_KEY_ENOENT"
ENGINE_KEY_EEXISTS == "ENGINE_KEY_EEXISTS"
ENGINE_ENOMEM == "ENGINE_ENOMEM"
ENGINE_EINVAL == "ENGINE_EINVAL"
ENGINE_EWOULDBLOCK == "ENGINE_EWOULDBLOCK"
ENGINE_FAILED == "ENGINE_FAILED"
ENGINE_ENOTSUP == "ENGINE_ENOTSUP"
ENGINE_E2BIG == "ENGINE_E2BIG"
ENGINE_ROLLBACK == "ENGINE_ROLLBACK"
NoError == "none"

\* error codes a test may ask an injector to inject
InjectErrors == {ENGINE_EWOULDBLOCK, ENGINE_ENOMEM}
\* results the wrapped engine may give
EngineResults == {ENGINE_SUCCESS, ENGINE_KEY_ENOENT}

(***************************************************************************)
(* enum class Cmd and the engine functions that go through the gate.       *)
(***************************************************************************)
Cmd == {"NONE", "GET_INFO", "ALLOCATE", "REMOVE", "GET", "STORE", "CAS",
        "ARITHMETIC", "LOCK", "UNLOCK", "FLUSH", "GET_STATS", "GET_META",
        "UNKNOWN_COMMAND"}

GatedFns == {"allocate", "allocate_ex", "remove", "get", "get_if",
             "get_and_touch", "get_locked", "unlock", "get_meta", "store",
             "store_if", "get_stats", "unknown_command"}

StoreOperations == {"OPERATION_SET", "OPERATION_CAS"}

\* a call of a gated engine function; operation matters for store/store_if
Calls == [fn : GatedFns \ {"store", "store_if"}, operation : {"none"}]
         \cup [fn : {"store", "store_if"}, operation : StoreOperations]

Call(fn) == [fn |-> fn, operation |-> "none"]
StoreCall(fn, operation) == [fn |-> fn, operation |-> operation]

\* the functions a run calls: the usual pair, and a cover of all of them
GetAndCas == {Call("get"), StoreCall("store", "OPERATION_CAS")}
GetIfAndCas == {Call("get_if"), StoreCall("store", "OPERATION_CAS")}
\* a read, a plain store and the two stores with a CAS
StoreCalls ==
    {Call("get"), StoreCall("store", "OPERATION_SET"),
     StoreCall("store", "OPERATION_CAS"),
     StoreCall("store_if", "OPERATION_CAS")}
GetOnly == {Call("get")}
\* a command the engine does not know, and a read
UnknownAndGet == {Call("unknown_command"), Call("get")}
CallSets ==
    {{Call("get"), Call("get_if"), StoreCall("store", "OPERATION_CAS")},
     {Call("get_and_touch"), StoreCall("store", "OPERATION_SET"),
      Call("allocate")},
     {Call("allocate_ex"), Call("remove"), Call("get_locked")},
     {Call("unlock"), Call("get_meta"),
      StoreCall("store_if", "OPERATION_SET")},
     {StoreCall("store_if", "OPERATION_CAS"), Call("get_stats"),
      Call("unknown_command")}}

\* the Cmd each engine function hands to should_inject_error
CmdOf(fn, operation) ==
    CASE fn \in {"allocate", "allocate_ex"} -> "ALLOCATE"
      [] fn = "remove" -> "REMOVE"
      [] fn \in {"get", "get_if", "get_and_touch"} -> "GET"
      [] fn = "get_locked" -> "LOCK"
      [] fn = "unlock" -> "UNLOCK"
      [] fn = "get_meta" -> "GET_META"
      [] fn \in {"store", "store_if"} ->
            IF operation = "OPERATION_CAS" THEN "CAS" ELSE "STORE"
      [] fn = "get_stats" -> "GET_STATS"
      [] OTHER -> "UNKNOWN_COMMAND"

\* what the engine function returns to its caller when the gate injects err
\* (allocate_ex throws cb::engine_error(err))
InjectedResult(fn, err) ==
    IF fn \in {"get_if", "get_and_touch"} THEN ENGINE_EWOULDBLOCK ELSE err

\* Dispatch with the wrapped engine called before the decision is looked at
Dispatch_calls_engine_first(fn, inject, err, r) ==
    IF inject
    THEN [result |-> InjectedResult(fn, err), engine_calls |-> 1,
          engine_result |-> r]
    ELSE [result |-> r, engine_calls |-> 1, engine_result |-> r]

\* body of a gated engine function after the gate's decision; r is what the
\* wrapped engine answers when it is called
Dispatch(fn, inject, err, r) ==
    IF inject
    THEN [result |-> InjectedResult(fn, err), engine_calls |-> 0,
          engine_result |-> NoError]
    ELSE [result |-> r, engine_calls |-> 1, engine_result |-> r]

(***************************************************************************)
(* Fault injectors (FaultInjectMode and its subclasses).                   *)
(***************************************************************************)
\* a uint32_t written as its two 16-bit halves
uint32(hi, lo) == [hi |-> hi, lo |-> lo]

NoMode == [type |-> "none", injected_error |-> NoError, count |-> 0,
           prev_cmd |-> "NONE", percentage_to_err |-> 0,
           sequence |-> uint32(0, 0), pos |-> 0,
           issued_return_error |-> FALSE]

ErrOnFirst(e) == [NoMode EXCEPT !.type = "ErrOnFirst", !.injected_error = e]
ErrOnNextN(e, n) ==
    [NoMode EXCEPT !.type = "ErrOnNextN", !.injected_error = e, !.count = n]
ErrRandom(e, p) ==
    [NoMode EXCEPT !.type = "ErrRandom", !.injected_error = e,
                   !.percentage_to_err = p]
ErrSequence(e, s) ==
    [NoMode EXCEPT !.type = "ErrSequence", !.injected_error = e,
                   !.sequence = s]
ErrOnNoNotify(e) ==
    [NoMode EXCEPT !.type = "ErrOnNoNotify", !.injected_error = e]
CASMismatch(n) ==
    [NoMode EXCEPT !.type = "CASMismatch",
                   !.injected_error = ENGINE_KEY_EEXISTS, !.count = n]

\* counts, percentages and bit masks a test installs
Counts == {0, 1, 2}
Percentages == {0, 100}
Masks == {uint32(0, 5), uint32(0, 22)}
\* 0x80000016 and its complement 0x7fffffe9
LongMasks == {uint32(32768, 22), uint32(32767, 65513)}

InstallableModes ==
    {ErrOnFirst(e) : e \in InjectErrors}
    \cup {ErrOnNextN(e, n) : e \in InjectErrors, n \in Counts}
    \cup {ErrRandom(e, p) : e \in InjectErrors, p \in Percentages}
    \cup {ErrSequence(e, s) : e \in InjectErrors, s \in Masks}
    \cup {ErrOnNoNotify(e) : e \in InjectErrors}
    \cup {CASMismatch(n) : n \in Counts}

\* injectors that notify, that do not, and that inject no ENGINE_EWOULDBLOCK
TypicalModes ==
    {ErrOnFirst(ENGINE_EWOULDBLOCK), ErrOnNextN(ENGINE_EWOULDBLOCK, 1),
     ErrOnNoNotify(ENGINE_EWOULDBLOCK), CASMismatch(1)}

\* one injector for each error code that can be injected
ErrorModes ==
    {ErrOnNextN(e, 1) : e \in InjectErrors} \cup {CASMismatch(1)}

\* the injectors of the runs that go through all positions of a sequence
SequenceModes == {ErrSequence(ENGINE_ENOMEM, s) : s \in LongMasks}

\* range of std::uniform_int_distribution<uint32_t> dis(1, 100)
Draws == 1..100

\* (sequence & (1 << pos)) != 0
BitSet(sequence, pos) ==
    IF pos < 16
    THEN (sequence.lo \div (2 ^ pos)) % 2 = 1
    ELSE (sequence.hi \div (2 ^ (pos - 16))) % 2 = 1

\* Each should_inject_error yields the decision and the injector's new state

\* ErrOnFirst that forgets to remember the command
ErrOnFirst_keeps_prev_cmd(m, cmd) ==
    [inject |-> (m.prev_cmd # cmd), mode |-> m]

ErrOnFirst_should_inject_error(m, cmd) ==
    [inject |-> (m.prev_cmd # cmd), mode |-> [m EXCEPT !.prev_cmd = cmd]]

ErrOnNextN_should_inject_error(m, cmd) ==
    IF m.count > 0
    THEN [inject |-> TRUE, mode |-> [m EXCEPT !.count = m.count - 1]]
    ELSE [inject |-> FALSE, mode |-> m]

ErrRandom_should_inject_error(m, cmd, draw) ==
    [inject |-> (draw < m.percentage_to_err), mode |-> m]

\* ErrSequence that stops one position early
ErrSequence_stops_at_31(m, cmd) ==
    IF m.pos < 31
    THEN [inject |-> BitSet(m.sequence, m.pos),
          mode |-> [m EXCEPT !.pos = m.pos + 1]]
    ELSE [inject |-> FALSE, mode |-> m]

ErrSequence_should_inject_error(m, cmd) ==
    IF m.pos < 32
    THEN [inject |-> BitSet(m.sequence, m.pos),
          mode |-> [m EXCEPT !.pos = m.pos + 1]]
    ELSE [inject |-> FALSE, mode |-> m]

ErrOnNoNotify_should_inject_error(m, cmd) ==
    IF ~m.issued_return_error
    THEN [inject |-> TRUE, mode |-> [m EXCEPT !.issued_return_error = TRUE]]
    ELSE [inject |-> FALSE, mode |-> m]

\* CASMismatch that does not look at the command
CASMismatch_any_cmd(m, cmd) ==
    IF m.count > 0
    THEN [inject |-> TRUE, mode |-> [m EXCEPT !.count = m.count - 1]]
    ELSE [inject |-> FALSE, mode |-> m]

CASMismatch_should_inject_error(m, cmd) ==
    IF cmd = "CAS" /\ m.count > 0
    THEN [inject |-> TRUE, mode |-> [m EXCEPT !.count = m.count - 1]]
    ELSE [inject |-> FALSE, mode |-> m]

\* virtual dispatch of FaultInjectMode::should_inject_error
should_inject(m, cmd, draw) ==
    CASE m.type = "ErrOnFirst" -> ErrOnFirst_should_inject_error(m, cmd)
      [] m.type = "ErrOnNextN" -> ErrOnNextN_should_inject_error(m, cmd)
      [] m.type = "ErrRandom" -> ErrRandom_should_inject_error(m, cmd, draw)
      [] m.type = "ErrSequence" -> ErrSequence_should_inject_error(m, cmd)
      [] m.type = "ErrOnNoNotify" -> ErrOnNoNotify_should_inject_error(m, cmd)
      [] OTHER -> CASMismatch_should_inject_error(m, cmd)

\* add_to_pending_io_ops that ErrOnNoNotify does not override
add_to_pending_io_ops_always(m) == TRUE

\* virtual dispatch of FaultInjectMode::add_to_pending_io_ops
add_to_pending_io_ops(m) == m.type # "ErrOnNoNotify"

(***************************************************************************)
(* State.                                                                  *)
(***************************************************************************)
VARIABLES
    connection_map,     \* id -> (cookie, injector), NoEntry when absent
    suspended_map,      \* token -> cookie, NoCookie when absent
    pending_io_ops,     \* queue of cookies to notify
    cookie_map_mutex,   \* holder of cookie_map_mutex
    mutex,              \* holder of the pending-IO mutex
    pump_pc,            \* position of process_notifications
    pump_cookie,        \* the cookie process_notifications has popped
    pc,                 \* per cookie: position of the call it is executing
    cur,                \* per cookie: the call it is executing
    ret,                \* the call that returned last
    enq_log,            \* every push on pending_io_ops, in order
    deliv_log,          \* every notify_io_complete, in order
    ops,                \* number of calls issued so far
    live,               \* the cookies the host uses in this run
    menu,               \* the injector the test installs in this run
    fns,                \* the gated engine functions the host calls in this run
    hist,               \* per cookie: what is known of its past calls
    clustermap_revno,   \* EWB_Engine::clustermap_revno
    stop_notification_thread,   \* std::atomic<bool> stop_notification_thread
    dtor_pc,            \* position of ~EWB_Engine
    lock_file,          \* whether the file the monitor workers watch exists
    threads,            \* the BlockMonitorThreads started, in order
    dcp_stream,         \* cookie -> (started, count) of a synthetic stream
    real_engine_dcp,    \* whether the wrapped engine implements DcpIface
    dcp_ret,            \* the call of the DCP interface that returned last
    dcp_access,         \* per cookie: what its thread is doing in dcp_stream
    monitor,            \* the DurabilityMonitor of the vbucket under test
    monitor_ret,        \* the call of the DurabilityMonitor that returned last
    task,               \* the PeriodicTask and what its executor was asked
    now                 \* std::chrono::steady_clock::now()

\* the state that only the destructor, the monitor workers and the DCP
\* interface change
dcp_vars == <<dcp_stream, real_engine_dcp, dcp_ret, dcp_access>>
dm_vars == <<monitor, monitor_ret>>
task_vars == <<task, now>>
side_vars == <<stop_notification_thread, dtor_pc, lock_file, threads,
               dcp_vars, dm_vars, task_vars>>

vars == <<connection_map, suspended_map, pending_io_ops, cookie_map_mutex,
          mutex, pump_pc, pump_cookie, pc, cur, ret, enq_log, deliv_log,
          ops, live, menu, fns, hist, clustermap_revno, side_vars>>

\* installed, calls, cas_calls, last_cmd and injected record the injector's
\* history: how it was installed, how often it was consulted (and how often on
\* a CAS), the command it was consulted on last and the commands it injected
\* on
NoEntry == [cookie |-> NoCookie, mode |-> NoMode, installed |-> NoMode,
            calls |-> 0, cas_calls |-> 0, last_cmd |-> "NONE",
            injected |-> {}]
NoThread == "free"
\* the cookies in use: two commands of one connection, or two connections
LiveSets == {{"c1", "c2"}, {"c1", "c3"}}
Pump == "pump"

\* record of a call: what was asked, what the gate saw and what came back
NoCall == [kind |-> "none", cookie |-> NoCookie, fn |-> "none",
           cmd |-> "NONE", tokens |-> {}, suspended |-> FALSE,
           had_entry |-> FALSE, consulted |-> FALSE, installed |-> NoMode,
           before |-> NoMode, idx |-> 0, last_cmd |-> "NONE",
           injected |-> {}, inject |-> FALSE, err |-> NoError,
           enq |-> 0, engine_calls |-> 0, engine_result |-> NoError,
           result |-> NoError, token |-> NoToken, target |-> NoCookie,
           opcode |-> "none", mode |-> "none", status |-> "none",
           forwarded |-> FALSE, cas_idx |-> 0,
           armed |-> FALSE, intact |-> FALSE, orphaned |-> FALSE,
           file |-> "none", started |-> FALSE]

\* what is remembered of a cookie's past: armed says that its last control
\* request installed the run's injector and that since then none of its gated
\* calls has looked at the registry and its connection has not
\* disconnected; intact says that since that install no
\* gate call or install with another cookie of the connection id and no
\* disconnect has touched the entry; orphaned says that the cookie was
\* registered in the suspension map when its connection disconnected and has
\* not been suspended again since
NoHist == [armed |-> FALSE, intact |-> FALSE, orphaned |-> FALSE]

\* the DurabilityMonitor of a new vbucket: nothing tracked, the replica at
\* seqno 0. high is the highest seqno the vbucket has assigned, committed the
\* seqnos of the SyncWrites committed so far
NoMonitor == [tracked |-> {}, syncWriteSeqno |-> 0, ackSeqno |-> 0,
              high |-> 0, committed |-> {}]
\* no call of the DurabilityMonitor
NoAck == [fn |-> "none", seqno |-> 0, before |-> NoMonitor, result |-> NoError]

\* no entry of dcp_stream for a cookie. total, steps and emitted record the
\* stream's history: the count it was opened with, the steps made since it
\* was started and the mutations it has produced
NoStream == [open |-> FALSE, started |-> FALSE, count |-> 0, total |-> 0,
             steps |-> 0, emitted |-> 0]

\* record of a call of the DCP interface
NoDcpCall == [fn |-> "none", op |-> 0, cookie |-> NoCookie,
              found |-> FALSE, before |-> NoStream, start_seqno |-> 0,
              rollback_seqno |-> 0, mutations |-> 0, engine_calls |-> 0,
              result |-> NoError]

\* std::chrono::steady_clock::time_point(): the clock's epoch, which is the
\* scheduledTime of a task that was never made runnable at a time
Epoch == 0
\* no PeriodicTask constructed yet. executor says whether an executor has
\* the task (executor != nullptr), runnable lists the times the executor was
\* asked to run it at; in_execute says that execute is in periodicExecute,
\* next_time is its local variable, and entry_time and entry_now record
\* scheduledTime and the clock when execute was entered
NoTask == [made |-> FALSE, period |-> 0, executor |-> FALSE,
           scheduledTime |-> Epoch, runnable |-> <<>>,
           in_execute |-> FALSE, next_time |-> Epoch,
           entry_time |-> Epoch, entry_now |-> Epoch,
           status |-> "none", threw |-> FALSE]

\* what a thread is doing in dcp_stream: nothing, dcp_stream[cookie] = ...
\* of open, or dcp_stream.find(cookie) of stream_req and step
NoAccess == "none"
Inserting == "insert"
Finding == "find"

InitAll(lives, modes, callsets, dcps) ==
    /\ connection_map = [id \in ConnIds |-> NoEntry]
    /\ suspended_map = [t \in Tokens |-> NoCookie]
    /\ pending_io_ops = <<>>
    /\ cookie_map_mutex = NoThread
    /\ mutex = NoThread
    /\ pump_pc = "start"
    /\ pump_cookie = NoCookie
    /\ pc = [c \in Cookies |-> "idle"]
    /\ cur = [c \in Cookies |-> NoCall]
    /\ ret = NoCall
    /\ enq_log = <<>>
    /\ deliv_log = <<>>
    /\ ops = 0
    /\ live \in lives
    /\ menu \in modes
    /\ fns \in callsets
    /\ hist = [c \in Cookies |-> NoHist]
    /\ clustermap_revno = 1
    /\ stop_notification_thread = FALSE
    /\ dtor_pc = "none"
    /\ lock_file = TRUE
    /\ threads = <<>>
    /\ dcp_stream = [c \in Cookies |-> NoStream]
    /\ real_engine_dcp \in dcps
    /\ dcp_ret = NoDcpCall
    /\ dcp_access = [c \in Cookies |-> NoAccess]
    /\ monitor = NoMonitor
    /\ monitor_ret = NoAck
    /\ task = NoTask
    /\ now = 1

\* the runs in which the wrapped engine implements DcpIface
InitWith(lives, modes, callsets) == InitAll(lives, modes, callsets, {TRUE})

\* the state after construction, for the runs each specification covers
Init ==
    \/ InitWith({{"c1", "c2"}}, TypicalModes, {GetAndCas})
    \/ InitWith({{"c1", "c3"}}, {ErrOnNextN(ENGINE_EWOULDBLOCK, 1)},
                {GetAndCas})
InitModes == InitWith({{"c1"}}, InstallableModes, {GetIfAndCas})
InitFns == InitWith({{"c1"}}, ErrorModes, CallSets)
InitCas == InitWith({{"c1"}}, {CASMismatch(n) : n \in Counts}, {StoreCalls})
InitSequence == InitWith({{"c1"}}, SequenceModes, {GetOnly})
InitControl ==
    InitWith({{"c1"}}, {ErrOnNextN(ENGINE_EWOULDBLOCK, 1)}, {UnknownAndGet})
InitPair ==
    InitWith(LiveSets, {ErrOnNextN(ENGINE_EWOULDBLOCK, 1)}, {GetAndCas})
InitOne == InitWith({{"c1", "c2"}}, {ErrOnNextN(ENGINE_EWOULDBLOCK, 1)},
                    {GetAndCas})

(***************************************************************************)
(* Suspension map.                                                         *)
(***************************************************************************)
Min(S) == CHOOSE x \in S : \A y \in S : x <= y

\* the loop of is_connection_suspended over the std::map, in key order
RECURSIVE ScanSuspended(_, _, _)
ScanSuspended(map, keys, cookie) ==
    IF keys = {} THEN FALSE
    ELSE LET k == Min(keys) IN
         IF map[k] = cookie THEN TRUE
         ELSE ScanSuspended(map, keys \ {k}, cookie)

\* is_connection_suspended that looks at the first entry only
is_connection_suspended_first_entry(map, cookie) ==
    LET keys == {t \in Tokens : map[t] # NoCookie} IN
    keys # {} /\ map[Min(keys)] = cookie

is_connection_suspended(map, cookie) ==
    ScanSuspended(map, {t \in Tokens : map[t] # NoCookie}, cookie)

\* the tokens registered for a cookie
TokensOf(map, cookie) == {t \in Tokens : map[t] = cookie}

(***************************************************************************)
(* Returning from a call.                                                  *)
(***************************************************************************)
Return(c, call) ==
    /\ ret' = call
    /\ pc' = [pc EXCEPT ![c] = "idle"]
    /\ cur' = [cur EXCEPT ![c] = NoCall]

\* condvar.notify_one() wakes the notification thread if it is waiting
notify_one(p) == IF p = "waiting" THEN "woken" ELSE p

\* the number of calls a run may issue
OpsLimit ==
    IF menu \in SequenceModes THEN MaxSequenceOps
    ELSE IF task.made THEN MaxTaskOps
    ELSE IF fns = {} THEN MaxStreamOps
    ELSE IF menu = NoMode \/ (fns = GetOnly /\ Cardinality(live) = 2)
    THEN MaxMonitorOps
    ELSE MaxOps

\* entry of an engine function or callback; none is entered once the engine
\* is being destroyed
Issue ==
    /\ dtor_pc = "none"
    /\ ops < OpsLimit
    /\ ops' = ops + 1
    /\ UNCHANGED <<live, menu, fns>>

\* the cookie's gated call has reached the registry or was answered
Used(c) == [hist EXCEPT ![c].armed = FALSE, ![c].intact = FALSE]

\* opcodes of unknown_command requests
EwouldblockCtl == "EwouldblockCtl"
OtherOpcode == "Other"
OpcodeOf(fn) == IF fn = "unknown_command" THEN OtherOpcode ELSE "none"

\* unknown_command that hands every request it does not fail to the engine
unknown_command_forwards_all(opcode, inject) == ~inject

\* whether unknown_command calls real_engine->unknown_command
unknown_command_forwards(opcode, inject) ==
    opcode # EwouldblockCtl /\ ~inject

\* the same for a gated engine function
Forwards(fn, inject) ==
    fn = "unknown_command" /\ unknown_command_forwards(OpcodeOf(fn), inject)

(***************************************************************************)
(* The injection gate: EWB_Engine::should_inject_error and the engine      *)
(* function around it.                                                     *)
(***************************************************************************)
\* a gate that schedules a notification for a suspended cookie as well
GateSuspended_schedules(c, call) ==
    /\ pc[c] = "idle"
    /\ Issue
    /\ is_connection_suspended(suspended_map, c)
    /\ mutex = NoThread
    /\ pending_io_ops' = Append(pending_io_ops, c)
    /\ enq_log' = Append(enq_log, [cookie |-> c, token |-> NoToken])
    /\ pump_pc' = notify_one(pump_pc)
    /\ Return(c, [NoCall EXCEPT
                    !.kind = "gated", !.cookie = c, !.fn = call.fn,
                    !.cmd = CmdOf(call.fn, call.operation),
                    !.tokens = TokensOf(suspended_map, c),
                    !.opcode = OpcodeOf(call.fn),
                    !.armed = hist[c].armed, !.intact = hist[c].intact,
                    !.orphaned = hist[c].orphaned,
                    !.suspended = TRUE, !.inject = TRUE,
                    !.err = ENGINE_EWOULDBLOCK, !.enq = 1,
                    !.result = ENGINE_EWOULDBLOCK])
    /\ hist' = Used(c)
    /\ UNCHANGED <<connection_map, suspended_map, cookie_map_mutex, mutex,
                   pump_cookie, deliv_log, clustermap_revno, side_vars>>

\* get_meta written without the call of should_inject_error
GateSuspended_skips_get_meta(c, call) ==
    /\ pc[c] = "idle"
    /\ Issue
    /\ is_connection_suspended(suspended_map, c)
    /\ LET inject == call.fn # "get_meta"
           d == Dispatch(call.fn, inject, ENGINE_EWOULDBLOCK, ENGINE_SUCCESS)
       IN
       Return(c, [NoCall EXCEPT
                    !.kind = "gated", !.cookie = c, !.fn = call.fn,
                    !.cmd = CmdOf(call.fn, call.operation),
                    !.tokens = TokensOf(suspended_map, c),
                    !.opcode = OpcodeOf(call.fn),
                    !.armed = hist[c].armed, !.intact = hist[c].intact,
                    !.orphaned = hist[c].orphaned,
                    !.suspended = inject, !.inject = inject,
                    !.err = IF inject THEN ENGINE_EWOULDBLOCK ELSE NoError,
                    !.forwarded = Forwards(call.fn, inject),
                    !.engine_calls = d.engine_calls,
                    !.engine_result = d.engine_result,
                    !.result = d.result])
    /\ hist' = Used(c)
    /\ UNCHANGED <<connection_map, suspended_map, pending_io_ops,
                   cookie_map_mutex, mutex, pump_pc, pump_cookie, enq_log,
                   deliv_log, clustermap_revno, side_vars>>

\* a gate that looks at the registry before it asks whether the cookie is
\* suspended, and so evicts the entry another cookie left under the id
GateSuspended_evicts(c, call) ==
    /\ pc[c] = "idle"
    /\ Issue
    /\ is_connection_suspended(suspended_map, c)
    /\ LET d == Dispatch(call.fn, TRUE, ENGINE_EWOULDBLOCK, NoError) IN
       Return(c, [NoCall EXCEPT
                    !.kind = "gated", !.cookie = c, !.fn = call.fn,
                    !.cmd = CmdOf(call.fn, call.operation),
                    !.tokens = TokensOf(suspended_map, c),
                    !.opcode = OpcodeOf(call.fn),
                    !.armed = hist[c].armed, !.intact = hist[c].intact,
                    !.orphaned = hist[c].orphaned,
                    !.suspended = TRUE, !.inject = TRUE,
                    !.err = ENGINE_EWOULDBLOCK,
                    !.forwarded = Forwards(call.fn, TRUE),
                    !.engine_calls = d.engine_calls,
                    !.engine_result = d.engine_result,
                    !.result = d.result])
    /\ hist' = Used(c)
    /\ connection_map' =
          IF connection_map[get_connection_id(c)].cookie \in {NoCookie, c}
          THEN connection_map
          ELSE [connection_map EXCEPT ![get_connection_id(c)] = NoEntry]
    /\ UNCHANGED <<suspended_map, pending_io_ops,
                   cookie_map_mutex, mutex, pump_pc, pump_cookie, enq_log,
                   deliv_log, clustermap_revno, side_vars>>

\* Entry of a gated engine function on a cookie that is_connection_suspended
\* reports as suspended: err = ENGINE_EWOULDBLOCK, return true.
GateSuspended(c, call) ==
    /\ pc[c] = "idle"
    /\ Issue
    /\ is_connection_suspended(suspended_map, c)
    /\ LET d == Dispatch(call.fn, TRUE, ENGINE_EWOULDBLOCK, NoError) IN
       Return(c, [NoCall EXCEPT
                    !.kind = "gated", !.cookie = c, !.fn = call.fn,
                    !.cmd = CmdOf(call.fn, call.operation),
                    !.tokens = TokensOf(suspended_map, c),
                    !.opcode = OpcodeOf(call.fn),
                    !.armed = hist[c].armed, !.intact = hist[c].intact,
                    !.orphaned = hist[c].orphaned,
                    !.suspended = TRUE, !.inject = TRUE,
                    !.err = ENGINE_EWOULDBLOCK,
                    !.forwarded = Forwards(call.fn, TRUE),
                    !.engine_calls = d.engine_calls,
                    !.engine_result = d.engine_result,
                    !.result = d.result])
    /\ hist' = Used(c)
    /\ UNCHANGED <<connection_map, suspended_map, pending_io_ops,
                   cookie_map_mutex, mutex, pump_pc, pump_cookie, enq_log,
                   deliv_log, clustermap_revno, side_vars>>

\* Entry of a gated engine function on a cookie that is not suspended: the
\* suspension mutex is released and the registry is looked at next.
GateEnter(c, call) ==
    /\ pc[c] = "idle"
    /\ Issue
    /\ ~is_connection_suspended(suspended_map, c)
    /\ pc' = [pc EXCEPT ![c] = "registry"]
    /\ cur' = [cur EXCEPT ![c] =
                 [NoCall EXCEPT
                    !.kind = "gated", !.cookie = c, !.fn = call.fn,
                    !.cmd = CmdOf(call.fn, call.operation),
                    !.opcode = OpcodeOf(call.fn),
                    !.orphaned = hist[c].orphaned,
                    !.tokens = TokensOf(suspended_map, c)]]
    /\ UNCHANGED <<connection_map, suspended_map, pending_io_ops,
                   cookie_map_mutex, mutex, pump_pc, pump_cookie, ret,
                   enq_log, deliv_log, hist, clustermap_revno, side_vars>>

\* a gate that lets the entry of another cookie stay in the registry
GateRegistry_keeps_stale(c, draw, r) ==
    /\ pc[c] = "registry"
    /\ cookie_map_mutex = NoThread
    /\ LET id == get_connection_id(c)
           entry == connection_map[id]
           call == [cur[c] EXCEPT !.armed = hist[c].armed,
                                  !.intact = hist[c].intact]
       IN
       IF entry.cookie = NoCookie
       THEN \* no entry for the id
            /\ LET d == Dispatch(call.fn, FALSE, ENGINE_SUCCESS, r) IN
               Return(c, [call EXCEPT !.forwarded = Forwards(call.fn, FALSE),
                                      !.engine_calls = d.engine_calls,
                                      !.engine_result = d.engine_result,
                                      !.result = d.result])
            /\ hist' = Used(c)
            /\ UNCHANGED <<connection_map, cookie_map_mutex>>
       ELSE IF entry.cookie # c
       THEN \* the cookie is different
            /\ UNCHANGED connection_map
            /\ LET d == Dispatch(call.fn, FALSE, ENGINE_SUCCESS, r) IN
               Return(c, [call EXCEPT !.had_entry = TRUE,
                                      !.forwarded = Forwards(call.fn, FALSE),
                                      !.engine_calls = d.engine_calls,
                                      !.engine_result = d.engine_result,
                                      !.result = d.result])
            /\ hist' = [Used(c) EXCEPT ![entry.cookie].intact = FALSE]
            /\ UNCHANGED cookie_map_mutex
       ELSE LET s == should_inject(entry.mode, call.cmd, draw)
                err == IF s.inject THEN entry.mode.injected_error
                       ELSE ENGINE_SUCCESS
                seen == [call EXCEPT !.had_entry = TRUE, !.consulted = TRUE,
                                     !.installed = entry.installed,
                                     !.before = entry.mode,
                                     !.idx = entry.calls,
                                     !.cas_idx = entry.cas_calls,
                                     !.last_cmd = entry.last_cmd,
                                     !.injected = entry.injected,
                                     !.inject = s.inject, !.err = err]
            IN
            /\ hist' = Used(c)
            /\ connection_map' =
                  [connection_map EXCEPT
                     ![id].mode = s.mode,
                     ![id].calls = entry.calls + 1,
                     ![id].cas_calls =
                        IF call.cmd = "CAS" THEN entry.cas_calls + 1
                        ELSE entry.cas_calls,
                     ![id].last_cmd = call.cmd,
                     ![id].injected =
                        IF s.inject THEN entry.injected \cup {call.cmd}
                        ELSE entry.injected]
            /\ IF s.inject /\ err = ENGINE_EWOULDBLOCK
                  /\ add_to_pending_io_ops(entry.mode)
               THEN \* schedule_notification(cookie) with the registry locked
                    /\ cookie_map_mutex' = c
                    /\ pc' = [pc EXCEPT ![c] = "push"]
                    /\ cur' = [cur EXCEPT ![c] = [seen EXCEPT !.target = c]]
                    /\ UNCHANGED ret
               ELSE /\ LET d == Dispatch(call.fn, s.inject, err, r) IN
                       Return(c, [seen EXCEPT
                                    !.forwarded = Forwards(call.fn, s.inject),
                                    !.engine_calls = d.engine_calls,
                                    !.engine_result = d.engine_result,
                                    !.result = d.result])
                    /\ UNCHANGED cookie_map_mutex
    /\ UNCHANGED <<suspended_map, pending_io_ops, mutex, pump_pc,
                   pump_cookie, enq_log, deliv_log, ops, live, menu, fns,
                   clustermap_revno, side_vars>>

\* The registry part of should_inject_error, under cookie_map_mutex, when no
\* notification has to be scheduled; the engine function then returns the
\* injected error or the wrapped engine's answer r.
GateRegistry(c, draw, r) ==
    /\ pc[c] = "registry"
    /\ cookie_map_mutex = NoThread
    /\ LET id == get_connection_id(c)
           entry == connection_map[id]
           call == [cur[c] EXCEPT !.armed = hist[c].armed,
                                  !.intact = hist[c].intact]
       IN
       IF entry.cookie = NoCookie
       THEN \* no entry for the id
            /\ LET d == Dispatch(call.fn, FALSE, ENGINE_SUCCESS, r) IN
               Return(c, [call EXCEPT !.forwarded = Forwards(call.fn, FALSE),
                                      !.engine_calls = d.engine_calls,
                                      !.engine_result = d.engine_result,
                                      !.result = d.result])
            /\ hist' = Used(c)
            /\ UNCHANGED <<connection_map, cookie_map_mutex>>
       ELSE IF entry.cookie # c
       THEN \* the cookie is different: erase the entry
            /\ connection_map' = [connection_map EXCEPT ![id] = NoEntry]
            /\ LET d == Dispatch(call.fn, FALSE, ENGINE_SUCCESS, r) IN
               Return(c, [call EXCEPT !.had_entry = TRUE,
                                      !.forwarded = Forwards(call.fn, FALSE),
                                      !.engine_calls = d.engine_calls,
                                      !.engine_result = d.engine_result,
                                      !.result = d.result])
            /\ hist' = [Used(c) EXCEPT ![entry.cookie].intact = FALSE]
            /\ UNCHANGED cookie_map_mutex
       ELSE LET s == should_inject(entry.mode, call.cmd, draw)
                err == IF s.inject THEN entry.mode.injected_error
                       ELSE ENGINE_SUCCESS
                seen == [call EXCEPT !.had_entry = TRUE, !.consulted = TRUE,
                                     !.installed = entry.installed,
                                     !.before = entry.mode,
                                     !.idx = entry.calls,
                                     !.cas_idx = entry.cas_calls,
                                     !.last_cmd = entry.last_cmd,
                                     !.injected = entry.injected,
                                     !.inject = s.inject, !.err = err]
            IN
            /\ hist' = Used(c)
            /\ connection_map' =
                  [connection_map EXCEPT
                     ![id].mode = s.mode,
                     ![id].calls = entry.calls + 1,
                     ![id].cas_calls =
                        IF call.cmd = "CAS" THEN entry.cas_calls + 1
                        ELSE entry.cas_calls,
                     ![id].last_cmd = call.cmd,
                     ![id].injected =
                        IF s.inject THEN entry.injected \cup {call.cmd}
                        ELSE entry.injected]
            /\ IF s.inject /\ err = ENGINE_EWOULDBLOCK
                  /\ add_to_pending_io_ops(entry.mode)
               THEN \* schedule_notification(cookie) with the registry locked
                    /\ cookie_map_mutex' = c
                    /\ pc' = [pc EXCEPT ![c] = "push"]
                    /\ cur' = [cur EXCEPT ![c] = [seen EXCEPT !.target = c]]
                    /\ UNCHANGED ret
               ELSE /\ LET d == Dispatch(call.fn, s.inject, err, r) IN
                       Return(c, [seen EXCEPT
                                    !.forwarded = Forwards(call.fn, s.inject),
                                    !.engine_calls = d.engine_calls,
                                    !.engine_result = d.engine_result,
                                    !.result = d.result])
                    /\ UNCHANGED cookie_map_mutex
    /\ UNCHANGED <<suspended_map, pending_io_ops, mutex, pump_pc,
                   pump_cookie, enq_log, deliv_log, ops, live, menu, fns,
                   clustermap_revno, side_vars>>

(***************************************************************************)
(* Engine functions that do not go through the gate.                       *)
(***************************************************************************)
\* flush, reset_stats, item_set_cas, item_set_datatype and release (of an
\* item other than dcp_mutation_item) call the wrapped engine directly
UngatedFns == {"flush", "reset_stats", "item_set_cas", "item_set_datatype",
               "release"}
\* of these only flush returns an ENGINE_ERROR_CODE
Void == "void"
UngatedResults(fn) == IF fn = "flush" THEN EngineResults ELSE {Void}

\* a function of UngatedFns written like the gated ones
Ungated_through_gate(c, fn, r) ==
    /\ pc[c] = "idle"
    /\ Issue
    /\ LET suspended == is_connection_suspended(suspended_map, c) IN
       Return(c, [NoCall EXCEPT
                    !.kind = "ungated", !.cookie = c, !.fn = fn,
                    !.tokens = TokensOf(suspended_map, c),
                    !.suspended = suspended,
                    !.had_entry =
                       (connection_map[get_connection_id(c)].cookie = c),
                    !.before = connection_map[get_connection_id(c)].mode,
                    !.armed = hist[c].armed,
                    !.engine_calls = IF suspended THEN 0 ELSE 1,
                    !.engine_result = IF suspended THEN NoError ELSE r,
                    !.result = IF suspended THEN ENGINE_EWOULDBLOCK ELSE r])
    /\ UNCHANGED <<connection_map, suspended_map, pending_io_ops,
                   cookie_map_mutex, mutex, pump_pc, pump_cookie, enq_log,
                   deliv_log, hist, clustermap_revno, side_vars>>

\* a call of a function of UngatedFns: real_engine's function is called and
\* its answer r, if it has one, is returned
Ungated(c, fn, r) ==
    /\ pc[c] = "idle"
    /\ Issue
    /\ Return(c, [NoCall EXCEPT
                    !.kind = "ungated", !.cookie = c, !.fn = fn,
                    !.tokens = TokensOf(suspended_map, c),
                    !.had_entry =
                       (connection_map[get_connection_id(c)].cookie = c),
                    !.before = connection_map[get_connection_id(c)].mode,
                    !.armed = hist[c].armed,
                    !.engine_calls = 1,
                    !.engine_result = r,
                    !.result = r])
    /\ UNCHANGED <<connection_map, suspended_map, pending_io_ops,
                   cookie_map_mutex, mutex, pump_pc, pump_cookie, enq_log,
                   deliv_log, hist, clustermap_revno, side_vars>>

(***************************************************************************)
(* The DCP interface: open, stream_req and step with the synthetic stream. *)
(***************************************************************************)
\* A stream name is written as its pieces: the prefix it starts with, colons
\* and decimal digits.
EwbInternal == "ewb_internal"
Colon == ":"
StreamNames ==
    {<<EwbInternal, Colon, "0">>, <<EwbInternal, Colon, "2">>,
     <<EwbInternal>>, <<"replication">>}

\* std::numeric_limits<uint64_t>::max(), more than any run consumes
UnboundedCount == 1000000

\* nm.rfind(":"): the position of the last colon, 0 when there is none
rfind_colon(nm) ==
    LET at == {i \in 1..Len(nm) : nm[i] = Colon} IN
    IF at = {} THEN 0 ELSE CHOOSE i \in at : \A j \in at : j <= i

\* the value of a decimal digit
DigitValue(d) ==
    CHOOSE v \in 0..9 :
        <<"0", "1", "2", "3", "4", "5", "6", "7", "8", "9">>[v + 1] = d

RECURSIVE stoull(_, _)
\* std::stoull of decimal digits: acc is the value read so far
stoull(digits, acc) ==
    IF digits = <<>> THEN acc
    ELSE stoull(Tail(digits), 10 * acc + DigitValue(Head(digits)))

\* the count open gives the stream named nm
StreamCount(nm) ==
    IF rfind_colon(nm) # 0
    THEN stoull(SubSeq(nm, rfind_colon(nm) + 1, Len(nm)), 0)
    ELSE UnboundedCount

\* what producers->mutation may return
ProducerResults == {ENGINE_SUCCESS, ENGINE_E2BIG}
\* start_seqno of a stream request
StartSeqnos == {0, 1, 2}
\* the caller's rollback_seqno before the call
RollbackSeqnos == {0, 5}

\* a function of the DCP interface on a cookie without synthetic stream:
\* forwarded to the wrapped engine when it implements DcpIface
DcpForward(call, r) ==
    IF real_engine_dcp
    THEN [call EXCEPT !.engine_calls = 1, !.result = r]
    ELSE [call EXCEPT !.result = ENGINE_ENOTSUP]

DcpCall(c, fn) ==
    [NoDcpCall EXCEPT !.fn = fn, !.op = ops + 1, !.cookie = c,
                      !.found = dcp_stream[c].open,
                      !.before = dcp_stream[c]]

\* one thread is in dcp_stream[cookie] = ... while another thread is in the
\* map as well: a data race on the std::map
Racing ==
    \E c \in Cookies :
        /\ dcp_access[c] = Inserting
        /\ \E k \in Cookies \ {c} : dcp_access[k] # NoAccess

\* a host thread has entered open (with a name that starts with
\* ewb_internal), stream_req or step on the cookie and is in its access to
\* dcp_stream; none of the three takes a mutex before
DcpEnter(c, access) ==
    /\ dtor_pc = "none"
    /\ ops < OpsLimit
    /\ dcp_access[c] = NoAccess
    /\ dcp_access' = [dcp_access EXCEPT ![c] = access]
    /\ UNCHANGED <<connection_map, suspended_map, pending_io_ops,
                   cookie_map_mutex, mutex, pump_pc, pump_cookie, pc, cur,
                   ret, enq_log, deliv_log, ops, live, menu, fns, hist,
                   clustermap_revno, stop_notification_thread, dtor_pc,
                   lock_file, threads, dcp_stream, real_engine_dcp, dcp_ret,
                   dm_vars, task_vars>>

\* the call of the cookie's thread returns: it has left dcp_stream. What a
\* call does after a data race is undefined and is not modelled
DcpLeave(c, accesses) ==
    /\ ~Racing
    /\ dcp_access[c] \in {NoAccess} \cup accesses
    /\ dcp_access' = [dcp_access EXCEPT ![c] = NoAccess]

\* EWB_Engine::open
Open(c, nm, r) ==
    /\ Issue
    /\ DcpLeave(c, IF nm[1] = EwbInternal THEN {Inserting} ELSE {})
    /\ IF nm[1] = EwbInternal
       THEN /\ dcp_stream' =
                  [dcp_stream EXCEPT ![c] =
                      [NoStream EXCEPT !.open = TRUE,
                                       !.count = StreamCount(nm),
                                       !.total = StreamCount(nm)]]
            /\ dcp_ret' = [DcpCall(c, "open") EXCEPT
                              !.result = ENGINE_SUCCESS]
       ELSE /\ dcp_ret' = DcpForward(DcpCall(c, "open"), r)
            /\ UNCHANGED dcp_stream
    /\ UNCHANGED <<connection_map, suspended_map, pending_io_ops,
                   cookie_map_mutex, mutex, pump_pc, pump_cookie, pc, cur,
                   ret, enq_log, deliv_log, hist, clustermap_revno,
                   stop_notification_thread, dtor_pc, lock_file, threads,
                   real_engine_dcp, dm_vars, task_vars>>

\* stream_req that starts the stream before it looks at start_seqno
stream_req_starts_first(stream, start_seqno) ==
    IF start_seqno = 1
    THEN [stream |-> [stream EXCEPT !.started = TRUE], rollback |-> TRUE]
    ELSE [stream |-> [stream EXCEPT !.started = TRUE], rollback |-> FALSE]

\* stream_req on a synthetic stream: rollback for start_seqno 1, start
\* otherwise
stream_req(stream, start_seqno) ==
    IF start_seqno = 1
    THEN [stream |-> stream, rollback |-> TRUE]
    ELSE [stream |-> [stream EXCEPT !.started = TRUE], rollback |-> FALSE]

\* EWB_Engine::stream_req; rollback_seqno is the caller's variable
StreamReq(c, start_seqno, rollback_seqno, r) ==
    /\ Issue
    /\ DcpLeave(c, {Finding})
    /\ LET call == [DcpCall(c, "stream_req") EXCEPT
                       !.start_seqno = start_seqno,
                       !.rollback_seqno = rollback_seqno]
           s == stream_req(dcp_stream[c], start_seqno)
       IN
       IF dcp_stream[c].open
       THEN /\ dcp_stream' = [dcp_stream EXCEPT ![c] = s.stream]
            /\ dcp_ret' =
                  IF s.rollback
                  THEN [call EXCEPT !.rollback_seqno = 0,
                                    !.result = ENGINE_ROLLBACK]
                  ELSE [call EXCEPT !.result = ENGINE_SUCCESS]
       ELSE /\ dcp_ret' = DcpForward(call, r)
            /\ UNCHANGED dcp_stream
    /\ UNCHANGED <<connection_map, suspended_map, pending_io_ops,
                   cookie_map_mutex, mutex, pump_pc, pump_cookie, pc, cur,
                   ret, enq_log, deliv_log, hist, clustermap_revno,
                   stop_notification_thread, dtor_pc, lock_file, threads,
                   real_engine_dcp, dm_vars, task_vars>>

\* step that emits whether or not the stream was started
step_ignores_started(stream) ==
    IF stream.count > 0
    THEN [emit |-> TRUE,
          stream |-> [stream EXCEPT !.count = stream.count - 1]]
    ELSE [emit |-> FALSE, stream |-> stream]

\* step on a synthetic stream: emit and count down while the stream is
\* started and count > 0
step(stream) ==
    IF stream.started /\ stream.count > 0
    THEN [emit |-> TRUE,
          stream |-> [stream EXCEPT !.count = stream.count - 1]]
    ELSE [emit |-> FALSE, stream |-> stream]

\* EWB_Engine::step; pr is what producers->mutation returns
Step(c, pr, r) ==
    /\ Issue
    /\ DcpLeave(c, {Finding})
    /\ LET call == DcpCall(c, "step")
           s == step(dcp_stream[c])
       IN
       IF dcp_stream[c].open
       THEN /\ dcp_stream' =
                  [dcp_stream EXCEPT ![c] =
                      [s.stream EXCEPT
                          !.steps = IF dcp_stream[c].started THEN @ + 1
                                    ELSE @,
                          !.emitted = IF s.emit THEN @ + 1 ELSE @]]
            /\ dcp_ret' =
                  IF s.emit
                  THEN [call EXCEPT !.mutations = 1, !.result = pr]
                  ELSE [call EXCEPT !.result = ENGINE_EWOULDBLOCK]
       ELSE /\ dcp_ret' = DcpForward(call, r)
            /\ UNCHANGED dcp_stream
    /\ UNCHANGED <<connection_map, suspended_map, pending_io_ops,
                   cookie_map_mutex, mutex, pump_pc, pump_cookie, pc, cur,
                   ret, enq_log, deliv_log, hist, clustermap_revno,
                   stop_notification_thread, dtor_pc, lock_file, threads,
                   real_engine_dcp, dm_vars, task_vars>>

(***************************************************************************)
(* schedule_notification: push under the mutex, then condvar.notify_one.   *)
(***************************************************************************)
SchedulePush(c) ==
    /\ pc[c] = "push"
    /\ mutex = NoThread
    /\ pending_io_ops' = Append(pending_io_ops, cur[c].target)
    /\ enq_log' = Append(enq_log, [cookie |-> cur[c].target,
                                   token |-> cur[c].token])
    /\ cur' = [cur EXCEPT ![c].enq = cur[c].enq + 1]
    /\ pc' = [pc EXCEPT ![c] = "notify"]
    /\ UNCHANGED <<connection_map, suspended_map, cookie_map_mutex, mutex,
                   pump_pc, pump_cookie, ret, deliv_log, ops, live, menu, fns, hist,
                   clustermap_revno, side_vars>>

\* a gate that returns from should_inject_error without releasing
\* cookie_map_mutex
ScheduleNotify_keeps_lock(c) ==
    /\ pc[c] = "notify"
    /\ pump_pc' = notify_one(pump_pc)
    /\ IF cur[c].kind = "gated"
       THEN LET d == Dispatch(cur[c].fn, TRUE, cur[c].err, NoError) IN
            Return(c, [cur[c] EXCEPT
                         !.forwarded = Forwards(cur[c].fn, TRUE),
                         !.engine_calls = d.engine_calls,
                         !.engine_result = d.engine_result,
                         !.result = d.result])
       ELSE Return(c, [cur[c] EXCEPT !.status = "Success",
                                     !.result = ENGINE_SUCCESS])
    /\ UNCHANGED <<connection_map, suspended_map, pending_io_ops, mutex,
                   cookie_map_mutex, pump_cookie, enq_log, deliv_log, ops,
                   live, menu, fns, hist, clustermap_revno, side_vars>>

\* notify_one, then the caller of schedule_notification returns: the gate
\* (releasing cookie_map_mutex) and its engine function, or resume and
\* handleResume
ScheduleNotify(c) ==
    /\ pc[c] = "notify"
    /\ pump_pc' = notify_one(pump_pc)
    /\ IF cur[c].kind = "gated"
       THEN /\ cookie_map_mutex' = NoThread
            /\ LET d == Dispatch(cur[c].fn, TRUE, cur[c].err, NoError) IN
               Return(c, [cur[c] EXCEPT
                            !.forwarded = Forwards(cur[c].fn, TRUE),
                            !.engine_calls = d.engine_calls,
                            !.engine_result = d.engine_result,
                            !.result = d.result])
       ELSE /\ Return(c, [cur[c] EXCEPT !.status = "Success",
                                        !.result = ENGINE_SUCCESS])
            /\ UNCHANGED cookie_map_mutex
    /\ UNCHANGED <<connection_map, suspended_map, pending_io_ops, mutex,
                   pump_cookie, enq_log, deliv_log, ops, live, menu, fns, hist,
                   clustermap_revno, side_vars>>

(***************************************************************************)
(* The control channel (unknown_command with opcode EwouldblockCtl) and    *)
(* the disconnect callback.                                                *)
(***************************************************************************)
\* install that emplaces without erasing: an entry that exists stays
Install_without_erase(c, new_mode) ==
    /\ pc[c] = "idle"
    /\ Issue
    /\ cookie_map_mutex = NoThread
    /\ connection_map' =
          IF connection_map[get_connection_id(c)].cookie # NoCookie
          THEN connection_map
          ELSE [connection_map EXCEPT ![get_connection_id(c)] =
                  [NoEntry EXCEPT !.cookie = c, !.mode = new_mode,
                                  !.installed = new_mode]]
    /\ hist' = [k \in Cookies |->
                   IF k = c
                   THEN [hist[k] EXCEPT !.armed = TRUE, !.intact = TRUE]
                   ELSE IF get_connection_id(k) = get_connection_id(c)
                   THEN [hist[k] EXCEPT !.intact = FALSE]
                   ELSE hist[k]]
    /\ Return(c, [NoCall EXCEPT
                    !.kind = "install", !.cookie = c,
                    !.opcode = EwouldblockCtl, !.mode = new_mode.type,
                    !.installed = new_mode,
                    !.had_entry =
                       (connection_map[get_connection_id(c)].cookie
                           # NoCookie),
                    !.status = "Success",
                    !.result = ENGINE_SUCCESS])
    /\ UNCHANGED <<suspended_map, pending_io_ops, cookie_map_mutex, mutex,
                   pump_pc, pump_cookie, enq_log, deliv_log,
                   clustermap_revno, side_vars>>

\* Next_N, Random, First, Sequence, No_Notify, CasMismatch: install new_mode
Install(c, new_mode) ==
    /\ pc[c] = "idle"
    /\ Issue
    /\ cookie_map_mutex = NoThread
    /\ connection_map' =
          [connection_map EXCEPT ![get_connection_id(c)] =
              [NoEntry EXCEPT !.cookie = c, !.mode = new_mode,
                              !.installed = new_mode]]
    /\ hist' = [k \in Cookies |->
                   IF k = c
                   THEN [hist[k] EXCEPT !.armed = TRUE, !.intact = TRUE]
                   ELSE IF get_connection_id(k) = get_connection_id(c)
                   THEN [hist[k] EXCEPT !.intact = FALSE]
                   ELSE hist[k]]
    /\ Return(c, [NoCall EXCEPT
                    !.kind = "install", !.cookie = c,
                    !.opcode = EwouldblockCtl, !.mode = new_mode.type,
                    !.installed = new_mode,
                    !.had_entry =
                       (connection_map[get_connection_id(c)].cookie
                           # NoCookie),
                    !.forwarded =
                       unknown_command_forwards(EwouldblockCtl, FALSE),
                    !.status = "Success",
                    !.result = ENGINE_SUCCESS])
    /\ UNCHANGED <<suspended_map, pending_io_ops, cookie_map_mutex, mutex,
                   pump_pc, pump_cookie, enq_log, deliv_log,
                   clustermap_revno, side_vars>>

\* the workers' records after a Suspend or Resume request changed the
\* suspension of the id: intact is history, not state of the program
Disturbed(ths, id, changed) ==
    [i \in 1..Len(ths) |->
        IF changed /\ ths[i].id = id THEN [ths[i] EXCEPT !.intact = FALSE]
        ELSE ths[i]]

\* suspend that assigns whether or not the id is taken
suspend_overwrites(map, cookie, id) ==
    [ok |-> (map[id] = NoCookie), map |-> [map EXCEPT ![id] = cookie]]

\* EWB_Engine::suspend: register the cookie unless the id is taken
suspend(map, cookie, id) ==
    IF map[id] = NoCookie
    THEN [ok |-> TRUE, map |-> [map EXCEPT ![id] = cookie]]
    ELSE [ok |-> FALSE, map |-> map]

\* Suspend: handleSuspend
Suspend(c, id) ==
    /\ pc[c] = "idle"
    /\ Issue
    /\ LET s == suspend(suspended_map, c, id) IN
       /\ suspended_map' = s.map
       /\ hist' = IF s.ok THEN [hist EXCEPT ![c].orphaned = FALSE]
                  ELSE hist
       /\ Return(c, [NoCall EXCEPT
                       !.kind = "suspend", !.cookie = c, !.token = id,
                       !.opcode = EwouldblockCtl, !.mode = "Suspend",
                       !.target = suspended_map[id],
                       !.forwarded =
                          unknown_command_forwards(EwouldblockCtl, FALSE),
                       !.status = IF s.ok THEN "Success" ELSE "none",
                       !.result = IF s.ok THEN ENGINE_SUCCESS
                                  ELSE ENGINE_KEY_EEXISTS])
       /\ threads' = Disturbed(threads, id, s.ok)
    /\ UNCHANGED <<connection_map, pending_io_ops, cookie_map_mutex, mutex,
                   pump_pc, pump_cookie, enq_log, deliv_log,
                   clustermap_revno, stop_notification_thread, dtor_pc,
                   lock_file, dcp_vars, dm_vars, task_vars>>

\* resume that does not test whether the id is registered
resume_default_cookie(map, id) ==
    [ok |-> TRUE, cookie |-> map[id], map |-> [map EXCEPT ![id] = NoCookie]]

\* resume that leaves the entry in the map
resume_without_erase(map, id) ==
    IF map[id] = NoCookie
    THEN [ok |-> FALSE, cookie |-> NoCookie, map |-> map]
    ELSE [ok |-> TRUE, cookie |-> map[id], map |-> map]

\* the locked part of EWB_Engine::resume: find and erase the entry
resume(map, id) ==
    IF map[id] = NoCookie
    THEN [ok |-> FALSE, cookie |-> NoCookie, map |-> map]
    ELSE [ok |-> TRUE, cookie |-> map[id],
          map |-> [map EXCEPT ![id] = NoCookie]]

\* Resume: handleResume calls resume(id); schedule_notification follows
Resume(c, id) ==
    /\ pc[c] = "idle"
    /\ Issue
    /\ LET s == resume(suspended_map, id) IN
       /\ suspended_map' = s.map
       /\ IF s.ok
          THEN /\ pc' = [pc EXCEPT ![c] = "push"]
               /\ cur' = [cur EXCEPT ![c] =
                            [NoCall EXCEPT
                               !.kind = "resume", !.cookie = c,
                               !.opcode = EwouldblockCtl, !.mode = "Resume",
                               !.forwarded =
                                  unknown_command_forwards(EwouldblockCtl,
                                                           FALSE),
                               !.token = id, !.target = s.cookie]]
               /\ UNCHANGED ret
          ELSE Return(c, [NoCall EXCEPT
                            !.kind = "resume", !.cookie = c,
                            !.opcode = EwouldblockCtl, !.mode = "Resume",
                            !.forwarded =
                               unknown_command_forwards(EwouldblockCtl,
                                                        FALSE),
                            !.token = id, !.result = ENGINE_EINVAL])
       /\ threads' = Disturbed(threads, id, s.ok)
    /\ UNCHANGED <<connection_map, pending_io_ops, cookie_map_mutex, mutex,
                   pump_pc, pump_cookie, enq_log, deliv_log, hist,
                   clustermap_revno, stop_notification_thread, dtor_pc,
                   lock_file, dcp_vars, dm_vars, task_vars>>

\* disconnect that erases only an entry stored under the cookie itself
Disconnect_own_entry(c) ==
    /\ pc[c] = "idle"
    /\ Issue
    /\ cookie_map_mutex = NoThread
    /\ connection_map' =
          IF connection_map[get_connection_id(c)].cookie = c
          THEN [connection_map EXCEPT ![get_connection_id(c)] = NoEntry]
          ELSE connection_map
    /\ hist' = [k \in Cookies |->
                   IF k = c
                   THEN [NoHist EXCEPT
                           !.orphaned = (TokensOf(suspended_map, c) # {})]
                   ELSE IF get_connection_id(k) = get_connection_id(c)
                   THEN [hist[k] EXCEPT !.armed = FALSE, !.intact = FALSE]
                   ELSE hist[k]]
    /\ Return(c, [NoCall EXCEPT
                    !.kind = "disconnect", !.cookie = c,
                    !.had_entry =
                       (connection_map[get_connection_id(c)].cookie
                           # NoCookie),
                    !.idx = connection_map[get_connection_id(c)].calls])
    /\ UNCHANGED <<suspended_map, pending_io_ops, cookie_map_mutex, mutex,
                   pump_pc, pump_cookie, enq_log, deliv_log,
                   clustermap_revno, side_vars>>

\* handle_disconnect: erase the id's entry
Disconnect(c) ==
    /\ pc[c] = "idle"
    /\ Issue
    /\ cookie_map_mutex = NoThread
    /\ connection_map' =
          [connection_map EXCEPT ![get_connection_id(c)] = NoEntry]
    /\ hist' = [k \in Cookies |->
                   IF k = c
                   THEN [NoHist EXCEPT
                           !.orphaned = (TokensOf(suspended_map, c) # {})]
                   ELSE IF get_connection_id(k) = get_connection_id(c)
                   THEN [hist[k] EXCEPT !.armed = FALSE, !.intact = FALSE]
                   ELSE hist[k]]
    /\ Return(c, [NoCall EXCEPT
                    !.kind = "disconnect", !.cookie = c,
                    !.had_entry =
                       (connection_map[get_connection_id(c)].cookie
                           # NoCookie),
                    !.idx = connection_map[get_connection_id(c)].calls])
    /\ UNCHANGED <<suspended_map, pending_io_ops, cookie_map_mutex, mutex,
                   pump_pc, pump_cookie, enq_log, deliv_log,
                   clustermap_revno, side_vars>>

\* a control request with an unknown mode that goes on to the install
UnknownMode_installs(c) ==
    /\ pc[c] = "idle"
    /\ Issue
    /\ connection_map' =
          [connection_map EXCEPT ![get_connection_id(c)] =
              [NoEntry EXCEPT !.cookie = c]]
    /\ Return(c, [NoCall EXCEPT
                    !.kind = "control", !.cookie = c,
                    !.opcode = EwouldblockCtl, !.mode = "unknown",
                    !.status = "Einval", !.result = ENGINE_FAILED])
    /\ UNCHANGED <<suspended_map, pending_io_ops, cookie_map_mutex, mutex,
                   pump_pc, pump_cookie, enq_log, deliv_log, hist,
                   clustermap_revno, side_vars>>

\* a control request whose mode is none of EWBEngineMode: new_mode stays
\* nullptr, the response carries Status::Einval and ENGINE_FAILED is returned
UnknownMode(c) ==
    /\ pc[c] = "idle"
    /\ Issue
    /\ Return(c, [NoCall EXCEPT
                    !.kind = "control", !.cookie = c,
                    !.opcode = EwouldblockCtl, !.mode = "unknown",
                    !.forwarded =
                       unknown_command_forwards(EwouldblockCtl, FALSE),
                    !.status = "Einval", !.result = ENGINE_FAILED])
    /\ UNCHANGED <<connection_map, suspended_map, pending_io_ops,
                   cookie_map_mutex, mutex, pump_pc, pump_cookie, enq_log,
                   deliv_log, hist, clustermap_revno, side_vars>>

\* IncrementClusterMapRevno
IncrementClusterMapRevno(c) ==
    /\ pc[c] = "idle"
    /\ Issue
    /\ clustermap_revno' = clustermap_revno + 1
    /\ Return(c, [NoCall EXCEPT
                    !.kind = "control", !.cookie = c,
                    !.opcode = EwouldblockCtl,
                    !.mode = "IncrementClusterMapRevno",
                    !.forwarded =
                       unknown_command_forwards(EwouldblockCtl, FALSE),
                    !.status = "Success", !.result = ENGINE_SUCCESS])
    /\ UNCHANGED <<connection_map, suspended_map, pending_io_ops,
                   cookie_map_mutex, mutex, pump_pc, pump_cookie, enq_log,
                   deliv_log, hist, side_vars>>

\* SetItemCas: real_engine->get answers r; on success item_set_cas follows
SetItemCas(c, r) ==
    /\ pc[c] = "idle"
    /\ Issue
    /\ Return(c, [NoCall EXCEPT
                    !.kind = "control", !.cookie = c,
                    !.opcode = EwouldblockCtl, !.mode = "SetItemCas",
                    !.forwarded =
                       unknown_command_forwards(EwouldblockCtl, FALSE),
                    !.engine_calls = IF r = ENGINE_SUCCESS THEN 2 ELSE 1,
                    !.engine_result = r,
                    !.status = IF r = ENGINE_SUCCESS THEN "Success"
                               ELSE "none",
                    !.result = r])
    /\ UNCHANGED <<connection_map, suspended_map, pending_io_ops,
                   cookie_map_mutex, mutex, pump_pc, pump_cookie, enq_log,
                   deliv_log, hist, clustermap_revno, side_vars>>

(***************************************************************************)
(* The notification thread: EWB_Engine::process_notifications.             *)
(***************************************************************************)
\* std::unique_lock<std::mutex> lk(mutex)
PumpLock ==
    /\ pump_pc = "start"
    /\ mutex = NoThread
    /\ mutex' = Pump
    /\ pump_pc' = "check"
    /\ UNCHANGED <<connection_map, suspended_map, pending_io_ops,
                   cookie_map_mutex, pump_cookie, pc, cur, ret, enq_log,
                   deliv_log, ops, live, menu, fns, hist,
                   clustermap_revno, side_vars>>

\* while (!stop_notification_thread): the flag is read with the mutex held;
\* when it is set the function returns and lk releases the mutex
PumpCheck ==
    /\ pump_pc = "check"
    /\ IF stop_notification_thread
       THEN pump_pc' = "done" /\ mutex' = NoThread
       ELSE pump_pc' = "wait" /\ UNCHANGED mutex
    /\ UNCHANGED <<connection_map, suspended_map, pending_io_ops,
                   cookie_map_mutex, pump_cookie, pc, cur, ret, enq_log,
                   deliv_log, ops, live, menu, fns, hist,
                   clustermap_revno, side_vars>>

\* condvar.wait(lk): release the mutex and block
PumpWait ==
    /\ pump_pc = "wait"
    /\ pump_pc' = "waiting"
    /\ mutex' = NoThread
    /\ UNCHANGED <<connection_map, suspended_map, pending_io_ops,
                   cookie_map_mutex, pump_cookie, pc, cur, ret, enq_log,
                   deliv_log, ops, live, menu, fns, hist,
                   clustermap_revno, side_vars>>

\* condvar.wait may return without a notify (spurious wakeup)
PumpSpuriousWakeup ==
    /\ pump_pc = "waiting"
    /\ pump_pc' = "woken"
    /\ UNCHANGED <<connection_map, suspended_map, pending_io_ops,
                   cookie_map_mutex, mutex, pump_cookie, pc, cur, ret,
                   enq_log, deliv_log, ops, live, menu, fns, hist,
                   clustermap_revno, side_vars>>

\* condvar.wait returns, or lk.lock() after the callback: take the mutex
PumpRelock ==
    /\ pump_pc \in {"woken", "relock"}
    /\ mutex = NoThread
    /\ mutex' = Pump
    /\ pump_pc' = "drain"
    /\ UNCHANGED <<connection_map, suspended_map, pending_io_ops,
                   cookie_map_mutex, pump_cookie, pc, cur, ret, enq_log,
                   deliv_log, ops, live, menu, fns, hist,
                   clustermap_revno, side_vars>>

\* process_notifications taking the newest element
pop_back(q) == [cookie |-> q[Len(q)], rest |-> SubSeq(q, 1, Len(q) - 1)]

\* the element process_notifications takes from the queue, and what is left
pop(q) == [cookie |-> Head(q), rest |-> Tail(q)]

\* a drain that keeps the mutex locked across the callback
PumpDrain_keeps_lock ==
    /\ pump_pc = "drain"
    /\ IF pending_io_ops = <<>>
       THEN /\ pump_pc' = "check"
            /\ UNCHANGED <<pending_io_ops, pump_cookie, mutex>>
       ELSE /\ pump_cookie' = pop(pending_io_ops).cookie
            /\ pending_io_ops' = pop(pending_io_ops).rest
            /\ pump_pc' = "callback"
            /\ UNCHANGED mutex
    /\ UNCHANGED <<connection_map, suspended_map, cookie_map_mutex, pc, cur,
                   ret, enq_log, deliv_log, ops, live, menu, fns, hist,
                   clustermap_revno, side_vars>>

\* while (!pending_io_ops.empty()): front, pop, lk.unlock()
PumpDrain ==
    /\ pump_pc = "drain"
    /\ IF pending_io_ops = <<>>
       THEN /\ pump_pc' = "check"
            /\ UNCHANGED <<pending_io_ops, pump_cookie, mutex>>
       ELSE /\ pump_cookie' = pop(pending_io_ops).cookie
            /\ pending_io_ops' = pop(pending_io_ops).rest
            /\ mutex' = NoThread
            /\ pump_pc' = "callback"
    /\ UNCHANGED <<connection_map, suspended_map, cookie_map_mutex, pc, cur,
                   ret, enq_log, deliv_log, ops, live, menu, fns, hist,
                   clustermap_revno, side_vars>>

\* server->cookie->notify_io_complete(cookie, ENGINE_SUCCESS)
PumpCallback ==
    /\ pump_pc = "callback"
    /\ deliv_log' = Append(deliv_log, pump_cookie)
    /\ pump_cookie' = NoCookie
    /\ pump_pc' = "relock"
    /\ UNCHANGED <<connection_map, suspended_map, pending_io_ops,
                   cookie_map_mutex, mutex, pc, cur, ret, enq_log, ops, live, menu, fns, hist,
                   clustermap_revno, side_vars>>

PumpStep ==
    PumpLock \/ PumpCheck \/ PumpWait \/ PumpRelock \/ PumpDrain
    \/ PumpCallback

(***************************************************************************)
(* EWB_Engine::~EWB_Engine.                                                *)
(***************************************************************************)
\* stop_notification_thread = true; the host destroys the engine when no
\* call is inside it
DtorStop ==
    /\ dtor_pc = "none"
    /\ \A c \in Cookies : pc[c] = "idle"
    /\ stop_notification_thread' = TRUE
    /\ dtor_pc' = "stopped"
    /\ UNCHANGED <<connection_map, suspended_map, pending_io_ops,
                   cookie_map_mutex, mutex, pump_pc, pump_cookie, pc, cur,
                   ret, enq_log, deliv_log, ops, live, menu, fns, hist,
                   clustermap_revno, lock_file, threads, dcp_vars, dm_vars,
                   task_vars>>

\* condvar.notify_all(): wakes the notification thread if it is waiting
DtorNotifyAll ==
    /\ dtor_pc = "stopped"
    /\ pump_pc' = notify_one(pump_pc)
    /\ dtor_pc' = "notified"
    /\ UNCHANGED <<connection_map, suspended_map, pending_io_ops,
                   cookie_map_mutex, mutex, pump_cookie, pc, cur, ret,
                   enq_log, deliv_log, ops, live, menu, fns, hist,
                   clustermap_revno, stop_notification_thread, lock_file,
                   threads, dcp_vars, dm_vars, task_vars>>

\* notify_io_thread->waitForState(Zombie) returns once the thread has left
\* process_notifications
DtorJoin ==
    /\ dtor_pc = "notified"
    /\ pump_pc = "done"
    /\ dtor_pc' = "joined"
    /\ UNCHANGED <<connection_map, suspended_map, pending_io_ops,
                   cookie_map_mutex, mutex, pump_pc, pump_cookie, pc, cur,
                   ret, enq_log, deliv_log, ops, live, menu, fns, hist,
                   clustermap_revno, stop_notification_thread, lock_file,
                   threads, dcp_vars, dm_vars, task_vars>>

DtorStep == DtorStop \/ DtorNotifyAll \/ DtorJoin

(***************************************************************************)
(* Specifications.                                                         *)
(***************************************************************************)
\* the random draw matters to ErrRandom only
DrawsFor(c) ==
    IF connection_map[get_connection_id(c)].mode.type = "ErrRandom"
    THEN Draws ELSE {1}

HostStart ==
    \E c \in live :
        \/ \E call \in fns : GateSuspended(c, call)
        \/ \E call \in fns : GateEnter(c, call)
        \/ Install(c, menu)
        \/ \E id \in Tokens : Suspend(c, id)
        \/ \E id \in Tokens : Resume(c, id)
        \/ Disconnect(c)

HostContinue ==
    \E c \in Cookies :
        \/ \E draw \in DrawsFor(c), r \in EngineResults :
               GateRegistry(c, draw, r)
        \/ SchedulePush(c)
        \/ ScheduleNotify(c)

Next == HostStart \/ HostContinue \/ PumpStep \/ PumpSpuriousWakeup

Spec == Init /\ [][Next]_vars
SpecModes == InitModes /\ [][Next]_vars
SpecFns == InitFns /\ [][Next]_vars

SpecCas == InitCas /\ [][Next]_vars
SpecPair == InitPair /\ [][Next]_vars

\* one connection that installs an ErrSequence and makes gated calls
NextSequence ==
    \E c \in live :
        \/ \E call \in fns : GateEnter(c, call)
        \/ \E draw \in DrawsFor(c), r \in EngineResults :
               GateRegistry(c, draw, r)
        \/ Install(c, menu)

SpecSequence == InitSequence /\ [][NextSequence]_vars

(***************************************************************************)
(* Block-Monitor-File: handleBlockMonitorFile and BlockMonitorThread.      *)
(***************************************************************************)
\* the file names a request carries: none, one that names no file, and the
\* file the test creates and later deletes
NoFile == ""
MissingFile == "missing"
LockFile == "lock"
Files == {NoFile, MissingFile, LockFile}

\* cb::io::isFile(file)
isFile(file, exists) == file = LockFile /\ exists

\* a BlockMonitorThread before it runs. target is the cookie its resume
\* found, enq the notifications it scheduled; intact says that no Suspend or
\* Resume request has changed the suspension of its id since it was started
NewThread(c, id) ==
    [id |-> id, cookie |-> c, pc |-> "poll", target |-> NoCookie, enq |-> 0,
     intact |-> TRUE]

\* handleBlockMonitorFile that registers the suspension before it looks at
\* the file
handleBlockMonitorFile_suspends_first(map, c, id, file, exists, started) ==
    IF file = NoFile
    THEN [result |-> ENGINE_EINVAL, map |-> map, start |-> FALSE]
    ELSE IF ~suspend(map, c, id).ok
    THEN [result |-> ENGINE_KEY_EEXISTS, map |-> map, start |-> FALSE]
    ELSE IF ~isFile(file, exists)
    THEN [result |-> ENGINE_KEY_ENOENT, map |-> suspend(map, c, id).map,
          start |-> FALSE]
    ELSE IF ~started
    THEN [result |-> ENGINE_FAILED, map |-> suspend(map, c, id).map,
          start |-> FALSE]
    ELSE [result |-> ENGINE_SUCCESS, map |-> suspend(map, c, id).map,
          start |-> TRUE]

\* handleBlockMonitorFile: the result, the suspensions it leaves and whether
\* a worker runs afterwards. started says whether creating and starting the
\* thread succeeded (the catch block returns ENGINE_FAILED otherwise and
\* leaves the suspension registered)
handleBlockMonitorFile(map, c, id, file, exists, started) ==
    IF file = NoFile
    THEN [result |-> ENGINE_EINVAL, map |-> map, start |-> FALSE]
    ELSE IF ~isFile(file, exists)
    THEN [result |-> ENGINE_KEY_ENOENT, map |-> map, start |-> FALSE]
    ELSE IF ~suspend(map, c, id).ok
    THEN [result |-> ENGINE_KEY_EEXISTS, map |-> map, start |-> FALSE]
    ELSE IF ~started
    THEN [result |-> ENGINE_FAILED, map |-> suspend(map, c, id).map,
          start |-> FALSE]
    ELSE [result |-> ENGINE_SUCCESS, map |-> suspend(map, c, id).map,
          start |-> TRUE]

\* BlockMonitorFile: the control request
BlockMonitorFile(c, id, file, started) ==
    /\ pc[c] = "idle"
    /\ Issue
    /\ LET h == handleBlockMonitorFile(suspended_map, c, id, file, lock_file,
                                       started)
       IN
       /\ suspended_map' = h.map
       /\ threads' = IF h.start THEN Append(threads, NewThread(c, id))
                     ELSE threads
       /\ hist' = IF h.map # suspended_map
                  THEN [hist EXCEPT ![c].orphaned = FALSE]
                  ELSE hist
       /\ Return(c, [NoCall EXCEPT
                       !.kind = "block_monitor_file", !.cookie = c,
                       !.token = id, !.file = file, !.started = h.start,
                       !.opcode = EwouldblockCtl,
                       !.mode = "BlockMonitorFile",
                       !.target = suspended_map[id],
                       !.forwarded =
                          unknown_command_forwards(EwouldblockCtl, FALSE),
                       !.status = IF h.result = ENGINE_SUCCESS
                                  THEN "Success" ELSE "none",
                       !.result = h.result])
    /\ UNCHANGED <<connection_map, pending_io_ops, cookie_map_mutex, mutex,
                   pump_pc, pump_cookie, enq_log, deliv_log,
                   clustermap_revno, stop_notification_thread, dtor_pc,
                   lock_file, dcp_vars, dm_vars, task_vars>>

\* the test deletes the file; it is not created again
DeleteFile ==
    /\ lock_file
    /\ lock_file' = FALSE
    /\ UNCHANGED <<connection_map, suspended_map, pending_io_ops,
                   cookie_map_mutex, mutex, pump_pc, pump_cookie, pc, cur,
                   ret, enq_log, deliv_log, ops, live, menu, fns, hist,
                   clustermap_revno, stop_notification_thread, dtor_pc,
                   threads, dcp_vars, dm_vars, task_vars>>

\* BlockMonitorThread::run that leaves its loop while the file exists
MonitorPoll_ignores_file(i) ==
    /\ threads[i].pc = "poll"
    /\ LET s == resume(suspended_map, threads[i].id) IN
       /\ suspended_map' = s.map
       /\ threads' = [threads EXCEPT
                         ![i].pc = IF s.ok THEN "push" ELSE "zombie",
                         ![i].target = s.cookie]
    /\ UNCHANGED <<connection_map, pending_io_ops, cookie_map_mutex, mutex,
                   pump_pc, pump_cookie, pc, cur, ret, enq_log, deliv_log,
                   ops, live, menu, fns, hist, clustermap_revno,
                   stop_notification_thread, dtor_pc, lock_file, dcp_vars, dm_vars,
                   task_vars>>

\* BlockMonitorThread::run: the loop ends when isFile(file) is false, then
\* the locked part of engine.resume(id)
MonitorPoll(i) ==
    /\ threads[i].pc = "poll"
    /\ ~isFile(LockFile, lock_file)
    /\ LET s == resume(suspended_map, threads[i].id) IN
       /\ suspended_map' = s.map
       /\ threads' = [threads EXCEPT
                         ![i].pc = IF s.ok THEN "push" ELSE "zombie",
                         ![i].target = s.cookie]
    /\ UNCHANGED <<connection_map, pending_io_ops, cookie_map_mutex, mutex,
                   pump_pc, pump_cookie, pc, cur, ret, enq_log, deliv_log,
                   ops, live, menu, fns, hist, clustermap_revno,
                   stop_notification_thread, dtor_pc, lock_file, dcp_vars, dm_vars,
                   task_vars>>

\* the worker's schedule_notification: push under the mutex
MonitorPush(i) ==
    /\ threads[i].pc = "push"
    /\ mutex = NoThread
    /\ pending_io_ops' = Append(pending_io_ops, threads[i].target)
    /\ enq_log' = Append(enq_log, [cookie |-> threads[i].target,
                                   token |-> threads[i].id])
    /\ threads' = [threads EXCEPT ![i].pc = "notify",
                                  ![i].enq = threads[i].enq + 1]
    /\ UNCHANGED <<connection_map, suspended_map, cookie_map_mutex, mutex,
                   pump_pc, pump_cookie, pc, cur, ret, deliv_log, ops, live,
                   menu, fns, hist, clustermap_revno,
                   stop_notification_thread, dtor_pc, lock_file, dcp_vars, dm_vars,
                   task_vars>>

\* the worker's condvar.notify_one(); run returns and the thread is a zombie
MonitorNotify(i) ==
    /\ threads[i].pc = "notify"
    /\ pump_pc' = notify_one(pump_pc)
    /\ threads' = [threads EXCEPT ![i].pc = "zombie"]
    /\ UNCHANGED <<connection_map, suspended_map, pending_io_ops,
                   cookie_map_mutex, mutex, pump_cookie, pc, cur, ret,
                   enq_log, deliv_log, ops, live, menu, fns, hist,
                   clustermap_revno, stop_notification_thread, dtor_pc,
                   lock_file, dcp_vars, dm_vars, task_vars>>

MonitorStep ==
    \E i \in 1..Len(threads) :
        MonitorPoll(i) \/ MonitorPush(i) \/ MonitorNotify(i)

\* the requests of the file-monitor test
MonitorRequest ==
    \E c \in live, id \in Tokens, file \in Files, started \in BOOLEAN :
        BlockMonitorFile(c, id, file, started)

InitMonitor == InitWith({{"c1", "c2"}}, {NoMode}, {GetOnly})

\* the file-monitor test: gated calls, Suspend and Resume requests of two
\* cookies next to the file-monitor requests
NextMonitor ==
    \/ \E c \in live :
           \/ \E call \in fns : GateSuspended(c, call)
           \/ \E call \in fns : GateEnter(c, call)
           \/ \E id \in Tokens : Suspend(c, id)
           \/ \E id \in Tokens : Resume(c, id)
    \/ MonitorRequest
    \/ HostContinue
    \/ PumpStep
    \/ PumpSpuriousWakeup
    \/ DeleteFile
    \/ MonitorStep

SpecMonitor == InitMonitor /\ [][NextMonitor]_vars

\* everything at once: gated calls, every control request, disconnects,
\* the workers and the notification thread
InitEverything ==
    InitWith({{"c1", "c2"}}, {ErrOnNextN(ENGINE_EWOULDBLOCK, 1)}, {GetOnly})

NextEverything == Next \/ MonitorRequest \/ DeleteFile \/ MonitorStep

SpecEverything == InitEverything /\ [][NextEverything]_vars

\* the workers and the other threads keep running, and a worker that can
\* take the mutex again and again gets it; nobody is obliged to delete the
\* file or to issue requests
FairMonitor ==
    /\ InitMonitor /\ [][NextMonitor]_vars
    /\ SF_vars(MonitorStep) /\ WF_vars(PumpStep) /\ WF_vars(HostContinue)

\* the control requests that touch neither the registry nor the suspensions
ControlStep ==
    \E c \in live :
        \/ UnknownMode(c)
        \/ IncrementClusterMapRevno(c)
        \/ \E r \in EngineResults : SetItemCas(c, r)

NextControl == Next \/ ControlStep

SpecControl == InitControl /\ [][NextControl]_vars

\* one connection, and the engine destroyed at some moment
InitShutdown ==
    InitWith({{"c1"}}, {ErrOnNextN(ENGINE_EWOULDBLOCK, 1)}, {GetOnly})

NextShutdown == Next \/ DtorStep

\* the notification thread, the calls in flight and the destructor keep
\* running; a spurious wakeup is never guaranteed
FairShutdown ==
    /\ InitShutdown /\ [][NextShutdown]_vars
    /\ WF_vars(PumpStep) /\ WF_vars(HostContinue) /\ WF_vars(DtorStep)

\* one connection that calls the functions of the engine interface, gated
\* and not
InitFacade ==
    InitWith({{"c1"}}, {ErrOnNextN(ENGINE_EWOULDBLOCK, 1)}, CallSets)

UngatedStep ==
    \E c \in live, fn \in UngatedFns : \E r \in UngatedResults(fn) :
        Ungated(c, fn, r)

NextFacade == Next \/ UngatedStep

SpecFacade == InitFacade /\ [][NextFacade]_vars

\* one DCP connection, served by one thread, with no injector and no gated
\* call; the wrapped engine may or may not implement DcpIface
InitStream == InitAll({{"c1"}}, {NoMode}, {{}}, BOOLEAN)

NextStream ==
    \E c \in live, r \in EngineResults :
        \/ \E nm \in StreamNames : Open(c, nm, r)
        \/ \E start_seqno \in StartSeqnos, rollback_seqno \in RollbackSeqnos :
               StreamReq(c, start_seqno, rollback_seqno, r)
        \/ \E pr \in ProducerResults : Step(c, pr, r)

SpecStream == InitStream /\ [][NextStream]_vars

\* two DCP connections, each served by its own thread
InitStreams == InitAll({{"c1", "c3"}}, {NoMode}, {{}}, BOOLEAN)

NextStreams ==
    \/ NextStream
    \/ \E c \in live, access \in {Inserting, Finding} : DcpEnter(c, access)

SpecStreams == InitStreams /\ [][NextStreams]_vars

(***************************************************************************)
(* DurabilityMonitor, as durability_monitor_test.cc drives it: SyncWrites  *)
(* are added with increasing seqnos and the one replica acknowledges.      *)
(***************************************************************************)
\* the seqnos the test gives its SyncWrites
MaxSeqno == 5
Seqnos == 1..MaxSeqno
\* the seqnos the replica acknowledges: behind, inside and beyond
AckSeqnos == (0 - 1)..(MaxSeqno + 1)

NoTrackedSyncWrite == "logic_error: No tracked SyncWrite"
BehindPendingSeqno == "logic_error: Ack'ed seqno is behind pending seqno"

Max(S) == CHOOSE x \in S : \A y \in S : y <= x

\* the seqno of the first tracked SyncWrite the replica has not acknowledged
PendingSeqno(m) == Min(m.tracked)

\* seqnoAckReceived that moves the replica's SyncWrite seqno to the
\* acknowledged seqno
seqnoAckReceived_tracks_ack(m, s) ==
    IF m.tracked = {}
    THEN [monitor |-> m, result |-> NoTrackedSyncWrite]
    ELSE IF s < PendingSeqno(m)
    THEN [monitor |-> m, result |-> BehindPendingSeqno]
    ELSE LET acked == {x \in m.tracked : x <= s} IN
         [monitor |-> [m EXCEPT !.tracked = m.tracked \ acked,
                                !.committed = m.committed \cup acked,
                                !.syncWriteSeqno = s,
                                !.ackSeqno = s],
          result |-> ENGINE_SUCCESS]

\* DurabilityMonitor::seqnoAckReceived(replica, memorySeqno)
seqnoAckReceived(m, s) ==
    IF m.tracked = {}
    THEN [monitor |-> m, result |-> NoTrackedSyncWrite]
    ELSE IF s < PendingSeqno(m)
    THEN [monitor |-> m, result |-> BehindPendingSeqno]
    ELSE LET acked == {x \in m.tracked : x <= s} IN
         [monitor |-> [m EXCEPT !.tracked = m.tracked \ acked,
                                !.committed = m.committed \cup acked,
                                !.syncWriteSeqno = Max(acked),
                                !.ackSeqno = s],
          result |-> ENGINE_SUCCESS]

\* addSyncWrite(seqno): VBucket::processSet of a pending SyncWrite; seqnos
\* grow
AddSyncWrite(seqno) ==
    /\ seqno > monitor.high
    /\ monitor' = [monitor EXCEPT !.tracked = @ \cup {seqno},
                                  !.high = seqno]
    /\ monitor_ret' = [NoAck EXCEPT !.fn = "addSyncWrite", !.seqno = seqno,
                                    !.before = monitor,
                                    !.result = ENGINE_SUCCESS]
    /\ UNCHANGED <<connection_map, suspended_map, pending_io_ops,
                   cookie_map_mutex, mutex, pump_pc, pump_cookie, pc, cur,
                   ret, enq_log, deliv_log, ops, live, menu, fns, hist,
                   clustermap_revno, stop_notification_thread, dtor_pc,
                   lock_file, threads, dcp_vars, task_vars>>

\* monitor->seqnoAckReceived(replica, s)
SeqnoAckReceived(s) ==
    /\ LET a == seqnoAckReceived(monitor, s) IN
       /\ monitor' = a.monitor
       /\ monitor_ret' = [NoAck EXCEPT !.fn = "seqnoAckReceived",
                                       !.seqno = s, !.before = monitor,
                                       !.result = a.result]
    /\ UNCHANGED <<connection_map, suspended_map, pending_io_ops,
                   cookie_map_mutex, mutex, pump_pc, pump_cookie, pc, cur,
                   ret, enq_log, deliv_log, ops, live, menu, fns, hist,
                   clustermap_revno, stop_notification_thread, dtor_pc,
                   lock_file, threads, dcp_vars, task_vars>>

InitDurability == InitAll({{"c1"}}, {NoMode}, {{}}, {TRUE})

NextDurability ==
    \/ \E seqno \in Seqnos : AddSyncWrite(seqno)
    \/ \E s \in AckSeqnos : SeqnoAckReceived(s)

SpecDurability == InitDurability /\ [][NextDurability]_vars

(***************************************************************************)
(* PeriodicTask (daemon/task.cc): a task that its executor runs again      *)
(* after every period for as long as periodicExecute returns Continue.     *)
(***************************************************************************)
Periods == {1, 2}
Times == 1..MaxTime
Statuses == {"Continue", "Finished"}

\* Task::makeRunnable(time): throws std::logic_error when no executor has the
\* task; otherwise scheduledTime = time and executor->makeRunnable(*this,
\* time)
makeRunnable(t, time) ==
    IF ~t.executor
    THEN [t EXCEPT !.threw = TRUE]
    ELSE [t EXCEPT !.scheduledTime = time,
                   !.runnable = Append(t.runnable, time),
                   !.threw = FALSE]

\* next that starts every period at the time of the call
next_from_now(t, clock) == clock + t.period

\* PeriodicTask::next: a period after the time the task was scheduled at,
\* or a period from now when it was never scheduled at a time
next(t, clock) ==
    IF t.scheduledTime = Epoch
    THEN clock + t.period
    ELSE t.scheduledTime + t.period

\* a PeriodicTask is constructed with its period; scheduled says whether it
\* is handed to an executor
NewTask(period, scheduled) ==
    /\ ~task.made
    /\ task' = [NoTask EXCEPT !.made = TRUE, !.period = period,
                              !.executor = scheduled]
    /\ UNCHANGED <<connection_map, suspended_map, pending_io_ops,
                   cookie_map_mutex, mutex, pump_pc, pump_cookie, pc, cur,
                   ret, enq_log, deliv_log, ops, live, menu, fns, hist,
                   clustermap_revno, stop_notification_thread, dtor_pc,
                   lock_file, threads, dcp_vars, dm_vars, now>>

\* time passes, also while periodicExecute runs
Tick ==
    /\ now < MaxTime
    /\ now' = now + 1
    /\ UNCHANGED <<connection_map, suspended_map, pending_io_ops,
                   cookie_map_mutex, mutex, pump_pc, pump_cookie, pc, cur,
                   ret, enq_log, deliv_log, ops, live, menu, fns, hist,
                   clustermap_revno, stop_notification_thread, dtor_pc,
                   lock_file, threads, dcp_vars, dm_vars, task>>

\* some thread calls Task::makeRunnable(time) on the task
MakeRunnableAt(time) ==
    /\ task.made
    /\ Issue
    /\ task' = [makeRunnable(task, time) EXCEPT !.status = "none"]
    /\ UNCHANGED <<connection_map, suspended_map, pending_io_ops,
                   cookie_map_mutex, mutex, pump_pc, pump_cookie, pc, cur,
                   ret, enq_log, deliv_log, hist, clustermap_revno,
                   stop_notification_thread, dtor_pc, lock_file, threads,
                   dcp_vars, dm_vars, now>>

\* PeriodicTask::execute, called by the executor that has the task, up to
\* the call of periodicExecute: auto next_time = next()
ExecuteEnter ==
    /\ task.made /\ task.executor
    /\ ~task.in_execute
    /\ Issue
    /\ task' = [task EXCEPT !.in_execute = TRUE,
                            !.next_time = next(task, now),
                            !.entry_time = task.scheduledTime,
                            !.entry_now = now,
                            !.status = "none", !.threw = FALSE]
    /\ UNCHANGED <<connection_map, suspended_map, pending_io_ops,
                   cookie_map_mutex, mutex, pump_pc, pump_cookie, pc, cur,
                   ret, enq_log, deliv_log, hist, clustermap_revno,
                   stop_notification_thread, dtor_pc, lock_file, threads,
                   dcp_vars, dm_vars, now>>

\* PeriodicTask::execute from the return of periodicExecute with status:
\* makeRunnable(next_time) if the status is Continue
ExecuteReturn(status) ==
    /\ task.in_execute
    /\ task' = [(IF status = "Continue"
                 THEN makeRunnable(task, task.next_time)
                 ELSE task)
                EXCEPT !.in_execute = FALSE, !.status = status]
    /\ UNCHANGED <<connection_map, suspended_map, pending_io_ops,
                   cookie_map_mutex, mutex, pump_pc, pump_cookie, pc, cur,
                   ret, enq_log, deliv_log, ops, live, menu, fns, hist,
                   clustermap_revno, stop_notification_thread, dtor_pc,
                   lock_file, threads, dcp_vars, dm_vars, now>>

InitTask == InitAll({{"c1"}}, {NoMode}, {{}}, {TRUE})

NextTask ==
    \/ \E period \in Periods, scheduled \in BOOLEAN :
           NewTask(period, scheduled)
    \/ Tick
    \/ \E time \in Times : MakeRunnableAt(time)
    \/ ExecuteEnter
    \/ \E status \in Statuses : ExecuteReturn(status)

SpecTask == InitTask /\ [][NextTask]_vars

\* threads that are running keep running; nobody is obliged to issue calls,
\* and a spurious wakeup is never guaranteed
FairSpec ==
    InitOne /\ [][Next]_vars /\ WF_vars(PumpStep) /\ WF_vars(HostContinue)

(***************************************************************************)
(* Properties.                                                             *)
(***************************************************************************)
\* the gated call that returned last
Gated == ret.kind = "gated"
\* ... and on which an installed injector was consulted
Consulted(type) == Gated /\ ret.consulted /\ ret.installed.type = type
\* the cookies pushed so far, in order
EnqCookies == [i \in 1..Len(enq_log) |-> enq_log[i].cookie]
\* the k-th push was made by the gate and the call that made it has returned
GatePushReturned(k) ==
    /\ Len(enq_log) >= k
    /\ enq_log[k].token = NoToken
    /\ pc[enq_log[k].cookie] = "idle"

\* C1: every gated call that returned ENGINE_EWOULDBLOCK after the gate
\* scheduled a notification for it is followed by the notify_io_complete of
\* that very push (the k-th push is answered by the k-th callback), given
\* that the notification thread and the calling threads keep running.
C1_WouldBlockIsNotified ==
    \A k \in 1..MaxOps : GatePushReturned(k) ~> (Len(deliv_log) >= k)

\* C2: with ErrOnNextN(n, e) installed, call number idx (from 0) on which the
\* injector is consulted returns e without the wrapped engine being called
\* when idx < n, and goes to the wrapped engine when idx >= n.
C2_NextNReturnsError ==
    Consulted("ErrOnNextN") =>
        IF ret.idx < ret.installed.count
        THEN /\ ret.result = ret.installed.injected_error
             /\ ret.engine_calls = 0
        ELSE ret.engine_calls = 1 /\ ret.result = ret.engine_result

\* C3: a gated call on a cookie that some token maps to returns
\* ENGINE_EWOULDBLOCK, pushes nothing on pending_io_ops and does not reach
\* the wrapped engine, whatever injector is installed.
C3_SuspendedBlocksWithoutEnqueue ==
    (Gated /\ ret.tokens # {}) =>
        /\ ret.result = ENGINE_EWOULDBLOCK
        /\ ret.enq = 0
        /\ ret.engine_calls = 0

C3_Witness ==
    /\ Gated /\ ret.tokens # {} /\ ret.result = ENGINE_EWOULDBLOCK
    /\ connection_map[get_connection_id(ret.cookie)].cookie = ret.cookie

\* C4: resume(t) of a registered token erases exactly the entry of t, and by
\* the time it returns it has pushed one notification, for the cookie that
\* was registered under t; the cookie keeps only its other tokens.
C4_ResumeReturn ==
    (ret.kind = "resume" /\ ret.result = ENGINE_SUCCESS) =>
        /\ ret.enq = 1
        /\ ret.target \in Cookies
        /\ \E i \in 1..Len(enq_log) :
              enq_log[i] = [cookie |-> ret.target, token |-> ret.token]

C4_ResumeErase ==
    \A c \in Cookies :
        (pc[c] = "idle" /\ cur'[c].kind = "resume") =>
            LET t == cur'[c].token
                target == cur'[c].target
            IN /\ target # NoCookie
               /\ suspended_map[t] = target
               /\ suspended_map' = [suspended_map EXCEPT ![t] = NoCookie]
               /\ TokensOf(suspended_map', target) =
                     TokensOf(suspended_map, target) \ {t}

C4_ResumeNotifiesOnce == [](C4_ResumeReturn) /\ [][C4_ResumeErase]_vars

\* a cookie that was suspended and resumed passes the suspension check
C4_Witness ==
    /\ Gated /\ ~ret.suspended /\ ret.tokens = {}
    /\ \E i \in 1..Len(enq_log) :
          enq_log[i].cookie = ret.cookie /\ enq_log[i].token # NoToken

\* C5: the gate treats a cookie as suspended iff at least one token maps to
\* it, so a cookie registered under several tokens stays suspended until all
\* of them are resumed.
C5_SuspendedIffToken == Gated => (ret.suspended <=> ret.tokens # {})

\* one token of the cookie was resumed, another still holds it
C5_Witness ==
    /\ Gated /\ ret.suspended /\ ret.tokens # {}
    /\ \E i \in 1..Len(enq_log) :
          /\ enq_log[i].cookie = ret.cookie
          /\ enq_log[i].token # NoToken
          /\ enq_log[i].token \notin ret.tokens

\* C6: when the gate injects error err on a gated call, the call returns err.
C6_InjectedErrorSurfaced == (Gated /\ ret.inject) => ret.result = ret.err

\* C7: a gated call on which the gate does not inject calls the wrapped
\* engine once and returns its answer; one on which it injects does not call
\* it; with no registry entry and no suspension nothing is injected.
C7_PassThroughOrInject ==
    Gated =>
        /\ ret.inject => ret.engine_calls = 0
        /\ ~ret.inject =>
              /\ ret.engine_calls = 1
              /\ ret.engine_result \in EngineResults
              /\ ret.result = ret.engine_result
        /\ (ret.tokens = {} /\ ~ret.had_entry) => ~ret.inject

\* an error of the wrapped engine comes back although an injector is there
C7_Witness ==
    /\ Gated /\ ret.consulted /\ ~ret.inject
    /\ ret.result = ENGINE_KEY_ENOENT

\* C8: the callbacks made so far, the cookie the notification thread holds
\* and the queue are together exactly the pushes in their order: callbacks
\* come in the order of the pushes.
C8_FifoDelivery ==
    EnqCookies = deliv_log
                 \o (IF pump_cookie = NoCookie THEN <<>> ELSE <<pump_cookie>>)
                 \o pending_io_ops

\* two different cookies were notified
C8_Witness == Len(deliv_log) >= 2 /\ deliv_log[1] # deliv_log[2]

\* C9: with ErrOnFirst(e) installed a gated call is injected iff its command
\* differs from the command of the call before it, an injected call returns
\* e and a call that is not injected goes to the wrapped engine.
C9_ErrOnFirstReturnsError ==
    Consulted("ErrOnFirst") =>
        /\ ret.inject <=> (ret.cmd # ret.last_cmd)
        /\ ret.inject => ret.result = ret.installed.injected_error
        /\ ~ret.inject => ret.engine_calls = 1

\* C10 as stated: once ErrOnFirst has injected on a command, it never
\* injects on that command again.
C10_InjectsOncePerKind ==
    (Consulted("ErrOnFirst") /\ ret.inject) => ret.cmd \notin ret.injected

\* C10: ErrOnFirst injects on a call iff its command differs from the command
\* of the last call the injector was consulted on (NONE after install); a
\* command it injected on before is injected on again after another command.
C10_InjectsWhenKindChanges ==
    Consulted("ErrOnFirst") => (ret.inject <=> (ret.cmd # ret.last_cmd))

\* a command is injected on for the second time
C10_Witness ==
    Consulted("ErrOnFirst") /\ ret.inject /\ ret.cmd \in ret.injected

\* a call of this kind is issued and returns in this step
Returned(kind) == ops' = ops + 1 /\ pc' = pc /\ ret'.kind = kind

RECURSIVE BitsOf(_, _)
\* positions of the ones in the binary expansion of n, its lowest being at i
BitsOf(n, i) ==
    IF n = 0 THEN {}
    ELSE (IF n % 2 = 1 THEN {i} ELSE {}) \cup BitsOf(n \div 2, i + 1)
\* the bits set in a 32-bit mask, bit 0 being the least significant
MaskBits(mask) == BitsOf(mask.lo, 0) \cup BitsOf(mask.hi, 16)

\* C11: with ErrSequence(mask, e) installed, gated call number idx (from 0)
\* after the install is injected iff idx < 32 and bit idx of the mask is set,
\* bit 31 included; call number 32 and every later one goes to the wrapped
\* engine.
C11_SequenceFollowsMask ==
    Consulted("ErrSequence") =>
        /\ ret.inject <=>
              (ret.idx < 32 /\ ret.idx \in MaskBits(ret.installed.sequence))
        /\ ret.inject => ret.result = ret.installed.injected_error
        /\ ~ret.inject => ret.engine_calls = 1

\* the 33rd call passes although the mask's highest bit is set
C11_Witness ==
    /\ Consulted("ErrSequence") /\ ret.idx = 32 /\ ~ret.inject
    /\ 31 \in MaskBits(ret.installed.sequence)

\* C12: with CasMismatch(n) installed no call with a command other than CAS
\* is injected or changes the injector; the CAS call number cas_idx (from 0,
\* counting store and store_if calls with OPERATION_CAS only) returns
\* ENGINE_KEY_EEXISTS without reaching the wrapped engine iff cas_idx < n, and
\* goes to the wrapped engine otherwise.
C12_CasMismatchCountsCas ==
    Consulted("CASMismatch") =>
        IF ret.cmd = "CAS"
        THEN IF ret.cas_idx < ret.installed.count
             THEN /\ ret.inject
                  /\ ret.result = ENGINE_KEY_EEXISTS
                  /\ ret.engine_calls = 0
             ELSE /\ ~ret.inject
                  /\ ret.engine_calls = 1
                  /\ ret.result = ret.engine_result
        ELSE /\ ~ret.inject
             /\ ret.engine_calls = 1
             /\ connection_map[get_connection_id(ret.cookie)].mode
                   = ret.before

\* the second CAS, made through store_if after a call that is no CAS, is
\* injected
C12_Witness ==
    /\ Consulted("CASMismatch") /\ ret.fn = "store_if" /\ ret.cmd = "CAS"
    /\ ret.cas_idx = 1 /\ ret.idx = 2 /\ ret.inject

\* C13: with ErrOnNoNotify(e) installed the gated call that is injected is
\* the first after the install and no other, and the gate pushes nothing on
\* pending_io_ops for any call, also when e is ENGINE_EWOULDBLOCK.
C13_NoNotifyInjectsOnceSilently ==
    Consulted("ErrOnNoNotify") =>
        /\ ret.inject <=> (ret.idx = 0)
        /\ ret.enq = 0
        /\ \A i \in 1..Len(enq_log) : enq_log[i].token # NoToken
        /\ ~ret.inject => ret.engine_calls = 1

C13_Witness ==
    /\ Consulted("ErrOnNoNotify") /\ ret.idx = 0 /\ ret.inject
    /\ ret.err = ENGINE_EWOULDBLOCK /\ ret.result = ENGINE_EWOULDBLOCK
    /\ ret.enq = 0 /\ pending_io_ops = <<>>

\* C14: with ErrRandom(p) installed every gated call is injected when
\* p = 100 and none is when p = 0.
C14_RandomInjectsAtRate ==
    Consulted("ErrRandom") =>
        /\ ret.installed.percentage_to_err = 100 => ret.inject
        /\ ret.installed.percentage_to_err = 0 => ~ret.inject

\* the registry entry an install of new_mode by cookie c leaves
FreshEntry(c, new_mode) ==
    [NoEntry EXCEPT !.cookie = c, !.mode = new_mode, !.installed = new_mode]

\* C15 as stated: the first gated call a cookie makes after its install is
\* decided by the injector it installed, in its initial state (a suspended
\* cookie aside, which the gate answers before it looks at the registry).
C15_NextCallSeesNewInjector ==
    (Gated /\ ret.armed /\ ~ret.suspended) =>
        /\ ret.consulted
        /\ ret.before = menu
        /\ ret.idx = 0

\* an install leaves, for its connection id, the entry (cookie, new injector
\* in its initial state) whatever was there, and touches no other id
C15_InstallEntry ==
    Returned("install") =>
        /\ ret'.installed = menu
        /\ ret'.result = ENGINE_SUCCESS
        /\ connection_map' =
              [connection_map EXCEPT ![get_connection_id(ret'.cookie)] =
                  FreshEntry(ret'.cookie, ret'.installed)]

\* as long as nothing but gate calls and control requests of other connection
\* ids happens, the entry stays as installed
C15_EntryIntact ==
    \A c \in Cookies :
        (hist[c].armed /\ hist[c].intact) =>
            connection_map[get_connection_id(c)] = FreshEntry(c, menu)

\* the cookie's next gated call is then decided by the new injector
C15_IntactSeesNewInjector ==
    (Gated /\ ret.armed /\ ret.intact /\ ~ret.suspended) =>
        /\ ret.consulted
        /\ ret.before = menu
        /\ ret.installed = menu
        /\ ret.idx = 0

\* C15: an install that returns success leaves exactly the entry (cookie,
\* new injector in its initial state) for the connection id; the cookie's
\* next gated call is decided by that injector provided the cookie is not
\* suspended and no gate call or install with another cookie of the same
\* connection id and no disconnect came in between, whatever other
\* connections do meanwhile.
C15_InstallThenCall ==
    /\ [](C15_EntryIntact /\ C15_IntactSeesNewInjector)
    /\ [][C15_InstallEntry]_vars

\* the new injector decides for c1 while c3 is inside the gate
C15_Witness ==
    /\ Gated /\ ret.cookie = "c1" /\ ret.armed /\ ret.intact
    /\ ret.consulted /\ ret.inject /\ pc["c3"] = "registry"

\* C16 as stated: a disconnect right after an install leaves the registry as
\* it was before the install, so the connection id has an entry afterwards
\* exactly if it had one before the install.
C16_DisconnectUndoesInstall ==
    [][(ret.kind = "install" /\ Returned("disconnect")
        /\ ret'.cookie = ret.cookie) =>
           (connection_map'[get_connection_id(ret.cookie)].cookie # NoCookie
               <=> ret.had_entry)]_vars

\* a disconnect leaves no entry for the connection id and touches no other
\* id; after an install into an empty slot that is the registry as it was
C16_DisconnectErases ==
    Returned("disconnect") =>
        LET id == get_connection_id(ret'.cookie) IN
        /\ connection_map' = [connection_map EXCEPT ![id] = NoEntry]
        /\ connection_map[id] = NoEntry => connection_map' = connection_map
        /\ (ret.kind = "install" /\ ret.cookie = ret'.cookie
            /\ ~ret.had_entry) => connection_map'[id] = NoEntry

\* only an install creates an entry
C16_OnlyInstallCreates ==
    \A id \in ConnIds :
        (connection_map[id].cookie = NoCookie
         /\ connection_map'[id].cookie # NoCookie) =>
            Returned("install") /\ get_connection_id(ret'.cookie) = id

\* a gated call that finds no entry and no suspension goes to the engine
C16_NoEntryPasses ==
    (Gated /\ ~ret.suspended /\ ~ret.had_entry) =>
        /\ ~ret.inject
        /\ ret.engine_calls = 1
        /\ ret.result = ret.engine_result

\* C16: a disconnect removes the entry of the cookie's connection id and is
\* a no-op when there is none; install then disconnect restores the registry
\* when the id had no entry before the install (an entry the install replaced
\* is not restored); until the next install the id has no entry, and gated
\* calls on it that are not suspended pass through.
C16_DisconnectThenPassThrough ==
    /\ [](C16_NoEntryPasses)
    /\ [][C16_DisconnectErases /\ C16_OnlyInstallCreates]_vars

\* a disconnect has removed an injector that had been consulted
C16_Witness ==
    /\ ret.kind = "disconnect" /\ ret.had_entry /\ ret.idx > 0
    /\ connection_map[get_connection_id(ret.cookie)] = NoEntry

\* C17: a gated call on a cookie whose suspensions all date from before the
\* disconnect of its connection is not treated as suspended.
C17_OrphanedSuspensionIgnored == (Gated /\ ret.orphaned) => ~ret.suspended

C19_UnknownModeEinval ==
    [][(Returned("control") /\ ret'.mode = "unknown") =>
           /\ ret'.status = "Einval"
           /\ ret'.result = ENGINE_FAILED
           /\ UNCHANGED <<connection_map, suspended_map, pending_io_ops>>]_vars

\* answered so with an injector installed, a suspension registered and a
\* notification queued
C19_Witness ==
    /\ ret.kind = "control" /\ ret.mode = "unknown"
    /\ ret.status = "Einval"
    /\ \E id \in ConnIds : connection_map[id].cookie # NoCookie
    /\ \E t \in Tokens : suspended_map[t] # NoCookie
    /\ pending_io_ops # <<>>

\* a suspend of a token that is taken returns ENGINE_KEY_EEXISTS and leaves
\* the map alone; one of a free token registers the caller
C20_SuspendStep ==
    Returned("suspend") =>
        LET t == ret'.token IN
        IF suspended_map[t] # NoCookie
        THEN /\ ret'.result = ENGINE_KEY_EEXISTS
             /\ suspended_map' = suspended_map
        ELSE /\ ret'.result = ENGINE_SUCCESS
             /\ suspended_map' = [suspended_map EXCEPT ![t] = ret'.cookie]

\* C20: Suspend of a token that is registered fails with
\* ENGINE_KEY_EEXISTS and the token keeps the cookie registered first; a
\* token maps to at most one cookie in every state.
C20_SuspendKeepsFirst ==
    /\ [](suspended_map \in [Tokens -> Cookies \cup {NoCookie}])
    /\ [][C20_SuspendStep]_vars

\* the token of another cookie was asked for and stays with that cookie
C20_Witness ==
    /\ ret.kind = "suspend" /\ ret.result = ENGINE_KEY_EEXISTS
    /\ ret.target \in Cookies \ {ret.cookie}
    /\ suspended_map[ret.token] = ret.target

\* cookie c issues a Resume of token t in this step
ResumeIssued(c, t) ==
    /\ pc[c] = "idle" /\ ops' = ops + 1
    /\ \/ pc' = pc /\ ret'.kind = "resume" /\ ret'.cookie = c
          /\ ret'.token = t
       \/ pc'[c] = "push" /\ cur'[c].kind = "resume" /\ cur'[c].token = t

\* C21 as stated: a Resume of a token that is not registered returns
\* ENGINE_KEY_ENOENT (not found), pushes no notification and leaves
\* suspended_map as it is.
C21_ResumeUnknownNotFound ==
    [][\A c \in Cookies, t \in Tokens :
          (ResumeIssued(c, t) /\ suspended_map[t] = NoCookie) =>
             /\ pc' = pc
             /\ ret'.result = ENGINE_KEY_ENOENT
             /\ UNCHANGED <<suspended_map, pending_io_ops, enq_log>>]_vars

\* C21: a Resume of a token that is not registered returns ENGINE_EINVAL
\* without sending a response, pushes no notification and leaves
\* suspended_map as it is.
C21_ResumeUnknownEinval ==
    [][\A c \in Cookies, t \in Tokens :
          (ResumeIssued(c, t) /\ suspended_map[t] = NoCookie) =>
             /\ pc' = pc
             /\ ret'.result = ENGINE_EINVAL
             /\ ret'.status = "none"
             /\ ret'.enq = 0
             /\ UNCHANGED <<suspended_map, pending_io_ops, enq_log>>]_vars

\* refused while another token is registered and a notification is queued
C21_Witness ==
    /\ ret.kind = "resume" /\ ret.result = ENGINE_EINVAL
    /\ suspended_map[ret.token] = NoCookie
    /\ \E t \in Tokens : suspended_map[t] # NoCookie
    /\ pending_io_ops # <<>>

\* C28: once the destructor has set stop_notification_thread and called
\* notify_all, the notification thread leaves process_notifications and the
\* destructor's wait for it ends, wherever the thread was meanwhile.
C28_DestructorJoins ==
    (dtor_pc = "notified") ~> (pump_pc = "done" /\ dtor_pc = "joined")

\* cookie c leaves the registry part of the gate in this step
LooksUp(c) == pc[c] = "registry" /\ pc'[c] # "registry"

\* C30: a gated call that is not suspended and finds its connection id's
\* entry stored under another cookie erases that entry and nothing else,
\* consults no injector, pushes nothing on pending_io_ops and goes to the
\* wrapped engine; no entry is left under the caller's cookie.
C30_MismatchEvicts ==
    [][\A c \in Cookies :
          (LooksUp(c)
           /\ connection_map[get_connection_id(c)].cookie
                 \notin {NoCookie, c}) =>
             /\ connection_map' =
                   [connection_map EXCEPT ![get_connection_id(c)] = NoEntry]
             /\ pc'[c] = "idle"
             /\ ret'.cookie = c /\ ret'.had_entry
             /\ ~ret'.consulted /\ ~ret'.inject /\ ~ret'.suspended
             /\ ret'.enq = 0
             /\ ret'.engine_calls = 1 /\ ret'.result = ret'.engine_result
             /\ UNCHANGED <<pending_io_ops, enq_log, suspended_map>>]_vars

\* c2 has evicted the injector c1 installed and had not used yet
C30_Witness ==
    /\ Gated /\ ret.cookie = "c2" /\ ret.had_entry /\ ~ret.consulted
    /\ ret.engine_calls = 1
    /\ hist["c1"].armed /\ ~hist["c1"].intact
    /\ connection_map[1] = NoEntry

\* the three functions the specification exempts from the gate
Exempt == {"flush", "item_set_cas", "item_set_datatype"}

\* C24: a call of flush, item_set_cas or item_set_datatype calls the wrapped
\* engine once and returns what it returns, also on a suspended cookie and
\* with an injector installed that would inject, and changes neither the
\* injector nor any other part of the registry, nor the suspension map, nor
\* pending_io_ops.
C24_ExemptPassThrough ==
    [][(Returned("ungated") /\ ret'.fn \in Exempt) =>
           /\ ret'.engine_calls = 1
           /\ ret'.result = ret'.engine_result
           /\ ret'.result \in UngatedResults(ret'.fn)
           /\ UNCHANGED <<connection_map, suspended_map, pending_io_ops,
                          enq_log>>]_vars

\* flush went to the wrapped engine on a suspended cookie whose injector would
\* have injected
C24_Witness ==
    /\ ret.kind = "ungated" /\ ret.fn = "flush" /\ ret.tokens # {}
    /\ ret.had_entry /\ ret.before.count = 1
    /\ ret.engine_calls = 1 /\ ret.result = ENGINE_KEY_ENOENT
    /\ connection_map[get_connection_id(ret.cookie)].mode = ret.before

StreamCallReturns(fn) ==
    /\ ops' = ops + 1 /\ dcp_ret'.op = ops'
    /\ dcp_ret'.fn = fn /\ dcp_ret'.found

\* at every moment a synthetic stream has produced no more mutations than
\* the count it was opened with, and what it has produced and what is left
\* add up to that count
C26_CountBounds ==
    \A c \in Cookies :
        dcp_stream[c].open =>
            /\ dcp_stream[c].emitted <= dcp_stream[c].total
            /\ dcp_stream[c].count >= 0
            /\ dcp_stream[c].count + dcp_stream[c].emitted
                  = dcp_stream[c].total

\* the step number steps (from 0) made on a started stream calls
\* producers->mutation once and returns its answer when steps < N, and
\* returns ENGINE_EWOULDBLOCK without a mutation otherwise; so does every
\* step on a stream that was not started
C26_StepEmits ==
    (dcp_ret.fn = "step" /\ dcp_ret.found) =>
        /\ dcp_ret.engine_calls = 0
        /\ IF dcp_ret.before.started
              /\ dcp_ret.before.steps < dcp_ret.before.total
           THEN dcp_ret.mutations = 1 /\ dcp_ret.result \in ProducerResults
           ELSE dcp_ret.mutations = 0
                /\ dcp_ret.result = ENGINE_EWOULDBLOCK

\* C26: on a synthetic stream opened as "ewb_internal:N" and started by a
\* stream request with a start_seqno other than 1, exactly the first N steps
\* emit the canned mutation and every later step returns ENGINE_EWOULDBLOCK;
\* the mutations emitted never exceed N and the remaining count never goes
\* below 0.
C26_FirstNStepsEmit == C26_CountBounds /\ C26_StepEmits

\* the third step on "ewb_internal:2" blocks after two mutations
C26_Witness ==
    /\ dcp_ret.fn = "step" /\ dcp_ret.found /\ dcp_ret.before.started
    /\ dcp_ret.before.total = 2 /\ dcp_ret.before.steps = 2
    /\ dcp_ret.before.emitted = 2
    /\ dcp_ret.result = ENGINE_EWOULDBLOCK

\* C27: a stream request on a cookie with a synthetic stream answers
\* ENGINE_ROLLBACK with rollback_seqno 0 and leaves started and count as they
\* are when start_seqno is 1, and sets started, leaves count and answers
\* ENGINE_SUCCESS for any other start_seqno; the wrapped engine is called in
\* neither case.
C27_StreamRequest ==
    [][StreamCallReturns("stream_req") =>
          LET c == dcp_ret'.cookie IN
          /\ dcp_ret'.engine_calls = 0
          /\ dcp_stream'[c].count = dcp_stream[c].count
          /\ \A k \in Cookies \ {c} : dcp_stream'[k] = dcp_stream[k]
          /\ IF dcp_ret'.start_seqno = 1
             THEN /\ dcp_ret'.result = ENGINE_ROLLBACK
                  /\ dcp_ret'.rollback_seqno = 0
                  /\ dcp_stream'[c] = dcp_stream[c]
             ELSE /\ dcp_ret'.result = ENGINE_SUCCESS
                  /\ dcp_stream'[c] =
                        [dcp_stream[c] EXCEPT !.started = TRUE]]_vars

\* a rollback answer on a stream that runs and has one mutation left
C27_Witness ==
    /\ dcp_ret.fn = "stream_req" /\ dcp_ret.found
    /\ dcp_ret.start_seqno = 1 /\ dcp_ret.result = ENGINE_ROLLBACK
    /\ dcp_ret.before.started /\ dcp_ret.before.count = 1
    /\ dcp_stream[dcp_ret.cookie] = dcp_ret.before

\* the Block-Monitor-File request that returns in this step
MonitorFileReturns == Returned("block_monitor_file")

\* C23: a Block-Monitor-File request that names a path at which there is no
\* file returns ENGINE_KEY_ENOENT, leaves suspended_map as it was and starts
\* no worker; one that gets past the check of the path (which is made
\* first) and whose token is registered returns ENGINE_KEY_EEXISTS, starts no
\* worker and leaves suspended_map, the existing suspension included, as it
\* was.
C23_MonitorFileRefused ==
    [][MonitorFileReturns =>
          /\ (ret'.file # NoFile /\ ~isFile(ret'.file, lock_file)) =>
                /\ ret'.result = ENGINE_KEY_ENOENT
                /\ ret'.status = "none"
                /\ suspended_map' = suspended_map
                /\ threads' = threads
          /\ (isFile(ret'.file, lock_file)
                 /\ suspended_map[ret'.token] # NoCookie) =>
                /\ ret'.result = ENGINE_KEY_EEXISTS
                /\ ret'.status = "none"
                /\ suspended_map' = suspended_map
                /\ threads' = threads]_vars

\* a request refused for its token while the file exists: the token is
\* another cookie's, registered by the request that started the one worker
C23_Witness ==
    /\ ret.kind = "block_monitor_file"
    /\ ret.result = ENGINE_KEY_EEXISTS
    /\ lock_file
    /\ ret.target # ret.cookie
    /\ suspended_map[ret.token] = ret.target
    /\ Len(threads) = 1 /\ threads[1].id = ret.token
    /\ threads[1].cookie = ret.target

\* a request refused for a path at which there is no file, its token free
C23_WitnessMissing ==
    /\ ret.kind = "block_monitor_file"
    /\ ret.result = ENGINE_KEY_ENOENT
    /\ ret.file = LockFile /\ ~lock_file
    /\ suspended_map[ret.token] = NoCookie

\* the workers started for the id of worker i
WorkersOf(i) == {j \in 1..Len(threads) : threads[j].id = threads[i].id}

C22_KeptWhileFileExists ==
    \A i \in 1..Len(threads) :
        (threads[i].intact /\ lock_file) =>
            /\ suspended_map[threads[i].id] = threads[i].cookie
            /\ is_connection_suspended(suspended_map, threads[i].cookie)
            /\ \A j \in WorkersOf(i) : threads[j].pc = "poll"

\* C22 (b): once the file is deleted every worker resumes its token and
\* ends.
C22_WorkersFinish ==
    (~lock_file) ~> (\A i \in 1..Len(threads) : threads[i].pc = "zombie")

\* C22 (c): when the workers of the token have ended, exactly one of them
\* has enqueued a notification, once and for the requesting cookie, and the
\* token is no longer registered (same proviso).
C22_OneNotification ==
    \A i \in 1..Len(threads) :
        (threads[i].intact /\ \A j \in WorkersOf(i) : threads[j].pc = "zombie")
        =>
            /\ Cardinality({j \in WorkersOf(i) : threads[j].enq > 0}) = 1
            /\ \A j \in WorkersOf(i) :
                   threads[j].enq > 0 =>
                       /\ threads[j].enq = 1
                       /\ threads[j].target = threads[i].cookie
            /\ suspended_map[threads[i].id] = NoCookie

AckReturns ==
    /\ monitor_ret'.fn = "seqnoAckReceived"
    /\ monitor_ret'.before = monitor
    /\ monitor_ret' # monitor_ret

\* the tracked SyncWrites an acknowledgement of seqno s covers
Acked(s) == {x \in monitor.tracked : x <= s}

\* C29: seqnoAckReceived(replica, s) with SyncWrites tracked and s not
\* behind the seqno of the first of them (the replica's pending seqno)
\* commits and removes exactly the tracked SyncWrites with seqno <= s, sets
\* the replica's SyncWrite seqno to the largest of these seqnos and its ack
\* seqno to s, and returns ENGINE_SUCCESS; the two values are still these
\* after the removal and stay when SyncWrites are added. With nothing tracked
\* the call throws the logic error "No tracked SyncWrite" and changes
\* nothing.
C29_SeqnoAckReceived ==
    /\ [][AckReturns =>
            LET s == monitor_ret'.seqno IN
            /\ (monitor.tracked # {} /\ s >= PendingSeqno(monitor)) =>
                  /\ monitor_ret'.result = ENGINE_SUCCESS
                  /\ monitor'.tracked = monitor.tracked \ Acked(s)
                  /\ monitor'.committed = monitor.committed \cup Acked(s)
                  /\ \A x \in monitor'.tracked : x > s
                  /\ monitor'.syncWriteSeqno \in Acked(s)
                  /\ \A x \in Acked(s) : x <= monitor'.syncWriteSeqno
                  /\ monitor'.ackSeqno = s
            /\ monitor.tracked = {} =>
                  /\ monitor_ret'.result = NoTrackedSyncWrite
                  /\ monitor' = monitor]_vars
    /\ [][monitor_ret'.fn = "addSyncWrite" =>
             /\ monitor'.syncWriteSeqno = monitor.syncWriteSeqno
             /\ monitor'.ackSeqno = monitor.ackSeqno]_vars

\* an acknowledgement in a gap of sparse seqnos: 1, 3 and 5 tracked, 4
\* acknowledged
C29_Witness ==
    /\ monitor_ret.fn = "seqnoAckReceived"
    /\ monitor_ret.before.tracked = {1, 3, 5}
    /\ monitor_ret.seqno = 4
    /\ monitor_ret.result = ENGINE_SUCCESS
    /\ monitor.tracked = {5}
    /\ monitor.syncWriteSeqno = 3 /\ monitor.ackSeqno = 4

\* an acknowledgement beyond the last tracked seqno, and then one with
\* nothing tracked
C29_WitnessNoTracked ==
    /\ monitor_ret.fn = "seqnoAckReceived"
    /\ monitor_ret.before.tracked = {}
    /\ monitor_ret.before.committed = {1, 3, 5}
    /\ monitor_ret.before.syncWriteSeqno = 5
    /\ monitor_ret.before.ackSeqno = 6
    /\ monitor_ret.result = NoTrackedSyncWrite
    /\ monitor = monitor_ret.before

\* the injector of the call decided to inject ENGINE_EWOULDBLOCK and is not
\* the one that forbids the notification (ErrOnNoNotify)
InjectorAsksNotify(call) ==
    /\ call.consulted /\ call.inject
    /\ call.err = ENGINE_EWOULDBLOCK
    /\ call.before.type # "ErrOnNoNotify"

\* C31: a gated call pushes its cookie on pending_io_ops once if the
\* injector it consulted decided to inject, the error is ENGINE_EWOULDBLOCK
\* and the injector permits the notification, and not at all otherwise (a
\* pass-through, another injected error, ErrOnNoNotify, a suspended cookie);
\* every push that is not a resume's is such a call's one push of its own
\* cookie.
C31_GateEnqueuesIffAsked ==
    /\ [](Gated => ret.enq = IF InjectorAsksNotify(ret) THEN 1 ELSE 0)
    /\ [][Len(enq_log') > Len(enq_log) =>
            /\ Len(enq_log') = Len(enq_log) + 1
            /\ pending_io_ops' = Append(pending_io_ops,
                                        enq_log'[Len(enq_log')].cookie)
            /\ enq_log'[Len(enq_log')].token = NoToken =>
                  LET c == enq_log'[Len(enq_log')].cookie IN
                  /\ pc[c] = "push" /\ cur[c].kind = "gated"
                  /\ cur[c].cookie = c /\ cur[c].enq = 0
                  /\ InjectorAsksNotify(cur[c])
                  /\ cur'[c].enq = 1]_vars

\* a call that was answered with an injected ENGINE_EWOULDBLOCK and whose
\* cookie is the one push so far
C31_Witness ==
    /\ Gated /\ InjectorAsksNotify(ret) /\ ret.enq = 1
    /\ ret.result = ENGINE_EWOULDBLOCK
    /\ enq_log = <<[cookie |-> ret.cookie, token |-> NoToken]>>

\* calls with an injected error that leave the queue alone: another error,
\* and ENGINE_EWOULDBLOCK from ErrOnNoNotify
C31_WitnessOtherError ==
    /\ Gated /\ ret.consulted /\ ret.inject /\ ret.err = ENGINE_ENOMEM
    /\ ret.enq = 0 /\ enq_log = <<>>
C31_WitnessNoNotify ==
    /\ Gated /\ ret.consulted /\ ret.inject /\ ret.err = ENGINE_EWOULDBLOCK
    /\ ret.before.type = "ErrOnNoNotify"
    /\ ret.enq = 0 /\ enq_log = <<>>

\* the step on which a calling thread takes the notify mutex (the push of
\* schedule_notification)
TakesNotifyMutex(c) == pc[c] = "push" /\ pc'[c] = "notify"
\* the step on which a calling thread takes the suspension mutex: the gate's
\* is_connection_suspended, suspend or resume, all at the entry of a call
TakesSuspensionMutex(c) ==
    /\ pc[c] = "idle"
    /\ \/ pc'[c] \in {"registry", "push"}
       \/ (ops' = ops + 1 /\ ret'.cookie = c
              /\ ret'.kind \in {"gated", "suspend", "resume"})

\* C32 as stated: no thread takes one of the three mutexes while it holds
\* another one.
C32_NeverHeldPairwise ==
    [][\A c \in Cookies :
          /\ TakesNotifyMutex(c) => cookie_map_mutex # c
          /\ TakesSuspensionMutex(c) =>
                (cookie_map_mutex # c /\ mutex # c)]_vars

\* C32, amended: the suspension mutex is never taken or held together with
\* another mutex, and the notification thread never holds the registry
\* mutex; the registry mutex and the notify mutex are held together only by
\* a gated call that schedules its notification, which takes the notify
\* mutex inside the registry mutex (a resume takes it holding nothing).
C32_OnlyGateNestsNotify ==
    /\ [](\A c \in Cookies :
             cookie_map_mutex = c =>
                 (pc[c] \in {"push", "notify"} /\ cur[c].kind = "gated"))
    /\ [](cookie_map_mutex # Pump /\ mutex \in {NoThread, Pump})
    /\ [][\A c \in Cookies :
             /\ TakesSuspensionMutex(c) =>
                   (cookie_map_mutex # c /\ mutex # c)
             /\ TakesNotifyMutex(c) =>
                   (cookie_map_mutex = c <=> cur[c].kind = "gated")
             /\ (TakesNotifyMutex(c) /\ cur[c].kind = "resume") =>
                   cookie_map_mutex \notin {c, Pump}]_vars

\* a gated call holds the registry mutex and waits for the notify mutex,
\* which the notification thread holds
C32_Witness ==
    \E c \in Cookies :
        /\ cookie_map_mutex = c /\ pc[c] = "push" /\ cur[c].kind = "gated"
        /\ mutex = Pump

\* the notification thread is inside its drain loop
InDrain == pump_pc \in {"drain", "callback", "relock"}

\* C33: notify_io_complete is called by the notification thread only, at a
\* point where it holds neither the notify mutex nor the registry mutex (so
\* a call that re-enters the shim from the callback finds every mutex it
\* needs free of the notification thread), and while cookies are queued the
\* thread stays in its drain loop: a cookie pushed during the callback is
\* taken by the same drain, before the thread waits again.
C33_CallbackOutsideLocks ==
    /\ [](pump_pc = "callback" =>
             /\ mutex = NoThread /\ cookie_map_mutex # Pump
             /\ pump_cookie # NoCookie)
    /\ [][deliv_log' # deliv_log =>
             /\ pump_pc = "callback" /\ mutex = NoThread
             /\ deliv_log' = Append(deliv_log, pump_cookie)]_vars
    /\ [][(InDrain /\ pending_io_ops' # <<>>) => InDrain']_vars

\* during the callback a gated call has got through the registry and is
\* about to push its cookie on the empty queue: the notify mutex is free
C33_Witness ==
    /\ pump_pc = "callback" /\ mutex = NoThread /\ pending_io_ops = <<>>
    /\ \E c \in Cookies :
           /\ pc[c] = "push" /\ cur[c].kind = "gated"
           /\ cookie_map_mutex = c

\* the threads that can hold a mutex from one step to the next: the callers
\* and the notification thread (the suspension mutex and threads_mutex are
\* taken and released within one step, by a thread that holds nothing, and
\* a worker holds the notify mutex only within its push)
Holders == Cookies \cup {Pump}
\* the mutex a thread is about to lock, "none" when it is not at a lock
Wants(t) ==
    IF t = Pump
    THEN IF pump_pc \in {"start", "woken", "relock"} THEN "mutex" ELSE "none"
    ELSE IF pc[t] = "registry" THEN "cookie_map_mutex"
    ELSE IF pc[t] = "push" THEN "mutex"
    ELSE "none"
HolderOf(m) == IF m = "mutex" THEN mutex ELSE cookie_map_mutex
\* t waits for a mutex that u holds
WaitsFor(t, u) == Wants(t) # "none" /\ HolderOf(Wants(t)) = u
\* the threads that t waits for, directly or through others
RECURSIVE WaitChain(_, _)
WaitChain(S, n) ==
    IF n = 0 THEN S
    ELSE WaitChain(S \cup {u \in Holders : \E t \in S : WaitsFor(t, u)},
                   n - 1)
BlockedBy(t) ==
    WaitChain({u \in Holders : WaitsFor(t, u)}, Cardinality(Holders))

\* C34: in every reachable state the waits-for relation over the mutexes is
\* acyclic: no thread waits, directly or through other threads, for a mutex
\* it holds itself; only callers and the notification thread ever hold one
\* while another thread runs, so a worker that waits is on no cycle.
C34_NoCircularWait ==
    /\ \A t \in Holders : t \notin BlockedBy(t)
    /\ mutex \in {NoThread, Pump}
    /\ cookie_map_mutex \in {NoThread} \cup Cookies

\* a chain of two waits: a gated call of one cookie waits for the registry
\* mutex, which another call holds while it waits for the notify mutex,
\* which the notification thread holds
C34_Witness ==
    \E c, d \in Cookies :
        /\ c # d
        /\ WaitsFor(c, d) /\ WaitsFor(d, Pump)
        /\ BlockedBy(c) = {d, Pump}

\* a worker waits for the notify mutex, which the notification thread holds
C34_WitnessWorker ==
    /\ mutex = Pump
    /\ \E i \in 1..Len(threads) : threads[i].pc = "push"

\* C35: the cookie a worker's resume releases and notifies is the cookie of
\* the Block-Monitor-File request that started the worker, never another
\* cookie registered under the token in the meantime.
C35_WorkerResumesOwnCookie ==
    \A i \in 1..Len(threads) :
        threads[i].target \in {NoCookie, threads[i].cookie}

\* the callback of this step answers a Resume request that another cookie
\* made for a token which the notified cookie held when it disconnected
ResumedAfterDisconnect ==
    /\ hist[pump_cookie].orphaned
    /\ ret.kind = "resume" /\ ret.cookie # pump_cookie
    /\ ret.target = pump_cookie
    /\ enq_log[Len(deliv_log')] = [cookie |-> pump_cookie,
                                   token |-> ret.token]

\* C36: notify_io_complete is not called for a cookie once the disconnect
\* of its connection has been handled: not for a notification that was
\* queued when the cookie disconnected (the disconnect is the last call that
\* returned), and not for the later resume of a token the cookie had
\* registered.
C36_NoCallbackAfterDisconnect ==
    [][deliv_log' # deliv_log =>
          /\ ~(ret.kind = "disconnect" /\ ret.cookie = pump_cookie)
          /\ ~ResumedAfterDisconnect]_vars

\* the second half alone
C36_NoCallbackForOrphanedToken ==
    [][deliv_log' # deliv_log => ~ResumedAfterDisconnect]_vars

\* C37: a gated call that is answered would-block because its cookie is
\* suspended leaves the registry as it was: the entry under the cookie's
\* connection id keeps its cookie and its injector with the state the
\* injector had (counter, position in the sequence, last command, fired
\* flag), and an entry that another cookie left there is not evicted.
SuspendedReturn == Returned("gated") /\ ret'.suspended
C37_SuspendedGateKeepsRegistry ==
    [][SuspendedReturn => connection_map' = connection_map]_vars

\* a suspended call of a cookie whose injector has been consulted before
C37_Witness ==
    /\ Gated /\ ret.suspended
    /\ LET entry == connection_map[get_connection_id(ret.cookie)] IN
       /\ entry.cookie = ret.cookie
       /\ entry.installed # NoMode
       /\ entry.calls >= 1

\* a suspended call of a cookie that finds another cookie's entry
C37_WitnessStale ==
    /\ Gated /\ ret.suspended
    /\ LET entry == connection_map[get_connection_id(ret.cookie)] IN
       /\ entry.cookie \notin {NoCookie, ret.cookie}
       /\ entry.mode # NoMode

\* C38: a Block-Monitor-File request that returns a result other than
\* success leaves the suspension map as it was before the request; when
\* starting the worker fails (ENGINE_FAILED) the requesting cookie is not
\* left suspended under the token.
C38_FailedRequestKeepsSuspensions ==
    [][Returned("block_monitor_file") /\ ret'.result # ENGINE_SUCCESS =>
          suspended_map' = suspended_map]_vars

\* C39: the accesses of open, stream_req and step to dcp_stream exclude
\* each other: in no state is one thread inserting or updating an entry
\* while another thread reads or updates the map.
C39_StreamMapAccessExclusive == ~Racing

\* C40: PeriodicTask::execute makes the task runnable again exactly when
\* periodicExecute returned Continue, and then at the time computed before
\* the body ran: the time the task was scheduled at when execute was entered
\* plus the period, or the clock at entry plus the period when the task had
\* never been scheduled at a time; so the scheduled time moves on by exactly
\* one period however long the run took. With any other status the executor
\* is not asked anything and scheduledTime is unchanged.
ExecuteReturned == task.in_execute /\ ~task'.in_execute
C40_PeriodicReschedule ==
    [][ExecuteReturned =>
          IF task'.status = "Continue"
          THEN LET time == IF task.entry_time = Epoch
                           THEN task.entry_now + task.period
                           ELSE task.entry_time + task.period
               IN
               /\ task'.runnable = Append(task.runnable, time)
               /\ task'.scheduledTime = time
               /\ task.entry_time # Epoch =>
                     task'.scheduledTime - task.entry_time = task.period
          ELSE /\ task'.runnable = task.runnable
               /\ task'.scheduledTime = task.scheduledTime]_vars

\* a task that was scheduled a period after its previous time although the
\* run took longer than the period
C40_Witness ==
    /\ task.made /\ ~task.in_execute /\ task.status = "Continue"
    /\ task.entry_time # Epoch
    /\ task.scheduledTime = task.entry_time + task.period
    /\ now > task.entry_now + task.period
    /\ Len(task.runnable) >= 2

\* a run that ended with another status
C40_WitnessFinished ==
    /\ task.made /\ ~task.in_execute /\ task.status = "Finished"
    /\ task.scheduledTime # Epoch
    /\ Len(task.runnable) >= 1

\* the first run of a task that was never scheduled at a time
C40_WitnessFirst ==
    /\ task.made /\ ~task.in_execute /\ task.status = "Continue"
    /\ task.entry_time = Epoch
    /\ now > task.entry_now
    /\ task.scheduledTime = task.entry_now + task.period

====
